---- MODULE Spec2Model ----
(***************************************************************************)
(* Bi-temporal versioned storage of the tycho indexer: the versioning      *)
(* primitives (tycho-storage/src/postgres/versioning.rs), the contract     *)
(* state gateway (src/storage/postgres/contract_state.rs) and the protocol *)
(* gateway (tycho-indexer/src/storage/postgres/protocol.rs).               *)
(*                                                                         *)
(* Tables are sequences of rows in primary-key order.  Timestamps are      *)
(* integers: block n carries ts = n, as in db_fixtures::insert_blocks      *)
(* where block 1 and block 2 are one hour apart.  An SQL NULL / Rust None  *)
(* is the integer NULL.                                                    *)
(***************************************************************************)
EXTENDS Integers, Sequences, FiniteSets, Bags, TLC

\* ------------------------------------------------------------------ bounds
MaxBatch == 3          \* longest batch of new rows handed to the versioning functions
MaxDbRows == 2         \* stored rows of the table in the versioning specification
MaxBlock == 2          \* highest block number ingested
MaxStorageRows == 3    \* rows of contract_storage
MaxChanges == 2        \* entries of one SlotChangeSet / one batch of state deltas
MaxStateRows == 3      \* rows of protocol_state
MaxBalanceRows == 2    \* rows of component_balance
MaxComponents == 2     \* protocol components ever offered (protocol_component.id is a serial)
TxPerBlock == 2        \* transactions of a block, with index 1..TxPerBlock
MaxFixtureRows == 1
MaxAccounts == 2       \* accounts ever inserted (account.id is a serial)

NULL == -1

\* ------------------------------------------------------------------ helpers
Max(S) == CHOOSE x \in S : \A y \in S : y <= x
Min(S) == CHOOSE x \in S : \A y \in S : x <= y
Range(s) == {s[i] : i \in DOMAIN s}
SeqsUpTo(S, n) == UNION {[1..k -> S] : k \in 0..n}
EmptyMap == [k \in {} |-> NULL]
\* HashMap::insert: a later insert of the same key overwrites
HashMapInsert(m, k, v) == [x \in (DOMAIN m) \cup {k} |-> IF x = k THEN v ELSE m[x]]

RECURSIVE LexLess(_, _)
\* Ord on tuples of integers (the SortKey types)
LexLess(a, b) ==
    IF Len(a) = 0 \/ Len(b) = 0 THEN Len(a) < Len(b)
    ELSE IF a[1] # b[1] THEN a[1] < b[1]
    ELSE LexLess(Tail(a), Tail(b))

RECURSIVE InsertSorted(_, _)
\* s and x are (key, item) pairs; x goes after every pair whose key is not greater
InsertSorted(s, x) ==
    IF s = <<>> THEN <<x>>
    ELSE IF LexLess(x.key, Head(s).key) THEN <<x>> \o s
    ELSE <<Head(s)>> \o InsertSorted(Tail(s), x)

RECURSIVE StableSortPairs(_)
StableSortPairs(s) ==
    IF s = <<>> THEN <<>>
    ELSE InsertSorted(StableSortPairs(SubSeq(s, 1, Len(s) - 1)), s[Len(s)])

\* slice::sort_by / sort_by_cached_key: a stable sort of items by their keys
StableSort(items, keys) ==
    LET sorted == StableSortPairs([i \in DOMAIN items |-> [key |-> keys[i], item |-> items[i]]])
    IN [i \in DOMAIN sorted |-> sorted[i].item]

IsSorted(keys) == \A i \in 1..(Len(keys) - 1) : ~LexLess(keys[i + 1], keys[i])

\* ------------------------------------------------- versioned rows (orm.rs)
\* VersionedRow::get_entity_id / StoredVersionedRow::get_entity_id
get_entity_id(r) ==
    IF "slot" \in DOMAIN r THEN <<r.account_id, r.slot>>
    ELSE IF "attribute_name" \in DOMAIN r THEN <<r.protocol_component_id, r.attribute_name>>
    ELSE IF "token_id" \in DOMAIN r THEN <<r.protocol_component_id, r.token_id>>
    ELSE <<r.account_id>>

\* VersionedRow::get_sort_key
get_sort_key(r) ==
    IF "slot" \in DOMAIN r THEN <<r.account_id, r.slot, r.valid_from, r.ordinal>>
    ELSE IF "attribute_name" \in DOMAIN r
         THEN <<r.protocol_component_id, r.attribute_name, r.valid_from, r.modify_tx>>
    ELSE IF "token_id" \in DOMAIN r
         THEN <<r.protocol_component_id, r.token_id, r.valid_from>>
    ELSE <<r.account_id, r.valid_from, r.modify_tx>>

\* DeltaVersionedRow::get_value / StoredDeltaVersionedRow::get_value
get_value(r) ==
    IF "slot" \in DOMAIN r THEN r.value
    ELSE IF "attribute_name" \in DOMAIN r THEN r.attribute_value
    ELSE r.new_balance

\* VersionedRow::set_valid_to
set_valid_to(r, end_version) == [r EXCEPT !.valid_to = end_version]

\* DeltaVersionedRow::set_previous_value
set_previous_value(r, previous_value) == [r EXCEPT !.previous_value = previous_value]

\* ------------------------------------------- versioning.rs: the primitives
RECURSIVE set_versioning_loop(_, _, _)
set_versioning_loop(objects, db_updates, i) ==
    IF i > Len(objects) - 1 THEN [objects |-> objects, db_updates |-> db_updates]
    ELSE LET current == objects[i]
             next == objects[i + 1]
         IN IF get_entity_id(current) = get_entity_id(next)
            THEN set_versioning_loop(
                     [objects EXCEPT ![i] = set_valid_to(current, next.valid_from)],
                     db_updates, i + 1)
            ELSE set_versioning_loop(
                     objects,
                     HashMapInsert(db_updates, get_entity_id(next), next.valid_from),
                     i + 1)

\* set_versioning_attributes without its first insert (line 132)
set_versioning_attributes_skip_first(objects) ==
    set_versioning_loop(objects, EmptyMap, 1)

\* set_versioning_attributes(objects): objects is not empty
set_versioning_attributes(objects) ==
    set_versioning_loop(
        objects,
        HashMapInsert(EmptyMap, get_entity_id(objects[1]), objects[1].valid_from),
        1)

\* set_delta_versioning_attributes without set_previous_value (line 166)
set_delta_versioning_attributes_no_previous(objects) ==
    set_versioning_attributes(objects)

RECURSIVE set_delta_versioning_loop(_, _, _)
set_delta_versioning_loop(objects, db_updates, i) ==
    IF i > Len(objects) - 1 THEN [objects |-> objects, db_updates |-> db_updates]
    ELSE LET current == objects[i]
             next == objects[i + 1]
         IN IF get_entity_id(current) = get_entity_id(next)
            THEN set_delta_versioning_loop(
                     [objects EXCEPT
                        ![i] = set_valid_to(current, next.valid_from),
                        ![i + 1] = set_previous_value(next, get_value(current))],
                     db_updates, i + 1)
            ELSE set_delta_versioning_loop(
                     objects,
                     HashMapInsert(db_updates, get_entity_id(next), next.valid_from),
                     i + 1)

\* set_delta_versioning_attributes(objects): objects is not empty
set_delta_versioning_attributes(objects) ==
    set_delta_versioning_loop(
        objects,
        HashMapInsert(EmptyMap, get_entity_id(objects[1]), objects[1].valid_from),
        1)

\* StoredVersionedRow::latest_versions_by_ids: the primary keys (positions) of the
\* open rows of the given entity ids.  The SQL filter matches every column on its
\* own; the tuple filter afterwards keeps the exact pairs.
latest_versions_by_ids(ids, table) ==
    LET firsts == {id[1] : id \in ids}
        seconds == {id[2] : id \in {x \in ids : Len(x) > 1}}
        sql == {i \in DOMAIN table :
                  /\ get_entity_id(table[i])[1] \in firsts
                  /\ (Len(get_entity_id(table[i])) > 1 =>
                        get_entity_id(table[i])[2] \in seconds)
                  /\ table[i].valid_to = NULL}
    IN {i \in sql : get_entity_id(table[i]) \in ids}

\* build_batch_update_query binding one end version for the whole batch
build_batch_update_query_one_version(db_rows, table, end_versions) ==
    [i \in DOMAIN table |->
        IF i \in db_rows
        THEN [table[i] EXCEPT !.valid_to = Max(Range(end_versions))]
        ELSE table[i]]

\* build_batch_update_query(objects, table_name, end_versions), executed:
\* UPDATE t SET valid_to = m.valid_to FROM (VALUES ...) m(id, valid_to) WHERE t.id = m.id
build_batch_update_query(db_rows, table, end_versions) ==
    [i \in DOMAIN table |->
        IF i \in db_rows
        THEN [table[i] EXCEPT !.valid_to = end_versions[get_entity_id(table[i])]]
        ELSE table[i]]

\* apply_versioning(new_data, conn): the new rows with their end versions and the
\* table with its open rows closed
apply_versioning(new_data, table) ==
    IF new_data = <<>> THEN [new_data |-> new_data, table |-> table]
    ELSE LET sv == set_versioning_attributes(new_data)
             db_rows == latest_versions_by_ids(DOMAIN sv.db_updates, table)
         IN [new_data |-> sv.objects,
             table |-> IF db_rows # {}
                       THEN build_batch_update_query(db_rows, table, sv.db_updates)
                       ELSE table]

\* find(|new| new.get_entity_id() == current_id): the first new row of the entity
find_first(new_data, current_id) ==
    LET hits == {i \in DOMAIN new_data : get_entity_id(new_data[i]) = current_id}
    IN IF hits = {} THEN 0 ELSE Min(hits)

RECURSIVE set_previous_from_db(_, _, _)
\* for r in db_rows.iter() { ... new_entry.set_previous_value(r.get_value()) }
set_previous_from_db(new_data, table, db_rows) ==
    IF db_rows = <<>> THEN new_data
    ELSE LET r == table[Head(db_rows)]
             j == find_first(new_data, get_entity_id(r))
         IN set_previous_from_db(
                IF j = 0 THEN new_data
                ELSE [new_data EXCEPT ![j] = set_previous_value(new_data[j], get_value(r))],
                table, Tail(db_rows))

\* the orders in which the database may return a set of rows (no ORDER BY)
Orders(S) == {s \in [1..Cardinality(S) -> S] : Range(s) = S}

\* apply_delta_versioning(new_data, conn), with db_order the order in which
\* latest_versions_by_ids returned its rows
apply_delta_versioning(new_data, table, db_order) ==
    IF new_data = <<>> THEN [new_data |-> new_data, table |-> table]
    ELSE LET sv == set_delta_versioning_attributes(new_data)
             db_rows == latest_versions_by_ids(DOMAIN sv.db_updates, table)
             ordered == IF Range(db_order) = db_rows THEN db_order
                        ELSE CHOOSE s \in Orders(db_rows) : TRUE
         IN [new_data |-> set_previous_from_db(sv.objects, table, ordered),
             table |-> IF db_rows # {}
                       THEN build_batch_update_query(db_rows, table, sv.db_updates)
                       ELSE table]

\* ---------------------------------------- versioning.rs: partitioned tables
\* PartitionedVersionedRow: get_id, get_valid_to; archive sets valid_to to the
\* next version's valid_from, delete sets it to the delete version
get_id(r) == r.id
get_valid_to(r) == r.valid_to
archive(r, next_version) == [r EXCEPT !.valid_to = next_version.valid_from]
delete(r, delete_version) == [r EXCEPT !.valid_to = delete_version]

RECURSIVE set_partitioned_versioning_loop(_, _, _, _, _)
set_partitioned_versioning_loop(data, delete_version, latest, archived, i) ==
    IF i > Len(data) THEN [latest |-> Range(latest), archived |-> archived]
    ELSE LET id == get_id(data[i])
         IN IF id \in DOMAIN delete_version
            THEN set_partitioned_versioning_loop(
                     data, delete_version, latest,
                     Append(archived, delete(data[i], delete_version[id])), i + 1)
            ELSE set_partitioned_versioning_loop(
                     data, delete_version,
                     HashMapInsert(latest, id, data[i]),
                     IF id \in DOMAIN latest
                     THEN Append(archived, archive(latest[id], data[i]))
                     ELSE archived,
                     i + 1)

\* set_partitioned_versioning_attributes(data, delete_version): the latest rows
\* (a HashMap's values, in no order) and the archived rows
set_partitioned_versioning_attributes(data, delete_version) ==
    set_partitioned_versioning_loop(data, delete_version, EmptyMap, <<>>, 1)

\* PartitionedVersionedRow::latest_versions_by_ids: the current rows of the ids
partitioned_latest_versions_by_ids(ids, table) ==
    {i \in DOMAIN table : get_id(table[i]) \in ids}

\* apply_partitioned_versioning keeping the archive rows with
\* valid_to >= retention_horizon
apply_partitioned_versioning_keep_horizon(new_data, delete_versions, retention_horizon, table, db_order) ==
    IF new_data = <<>> /\ DOMAIN delete_versions = {}
    THEN [latest |-> {}, archive |-> <<>>]
    ELSE LET db_rows == [i \in DOMAIN db_order |-> table[db_order[i]]] \o new_data
             r == set_partitioned_versioning_attributes(db_rows, delete_versions)
             Kept(e) == get_valid_to(e) >= retention_horizon
         IN [latest |-> r.latest, archive |-> SelectSeq(r.archived, Kept)]

\* apply_partitioned_versioning(new_data, delete_versions, retention_horizon, conn),
\* with db_order the order in which latest_versions_by_ids returned its rows
apply_partitioned_versioning(new_data, delete_versions, retention_horizon, table, db_order) ==
    IF new_data = <<>> /\ DOMAIN delete_versions = {}
    THEN [latest |-> {}, archive |-> <<>>]
    ELSE LET db_rows == [i \in DOMAIN db_order |-> table[db_order[i]]] \o new_data
             r == set_partitioned_versioning_attributes(db_rows, delete_versions)
             Kept(e) == get_valid_to(e) > retention_horizon
         IN [latest |-> r.latest, archive |-> SelectSeq(r.archived, Kept)]

\* ------------------------------------------------------------------ state
VARIABLES
    block,              \* table block: [chain_id, number, ts]
    transaction,        \* table transaction: [id, chain_id, block, index]
    account,            \* table account, in id order
    account_balance,    \* table account_balance
    contract_code,      \* table contract_code
    contract_storage,   \* table contract_storage
    protocol_component, \* table protocol_component
    protocol_state,     \* table protocol_state
    component_balance,  \* table component_balance
    account_seq,        \* the serial behind account.id
    protocol_component_seq, \* the serial behind protocol_component.id
    default_partition,  \* the current rows of a partitioned table
    cursor,             \* index of the transaction whose changes were written last
    snap,               \* per block number: what was readable at its ts when it was the tip
    batch,              \* the new rows handed to a versioning function
    last                \* the last call and what it returned

tables == <<block, transaction, account, account_balance, contract_code,
            contract_storage, protocol_component, protocol_state, component_balance>>
seqs == <<account_seq, protocol_component_seq>>
vars == <<tables, seqs, default_partition, cursor, snap, batch, last>>

\* --------------------------------- specification of the versioning primitives
\* Entity ids of the batches: (account_id, slot) pairs
BatchEntities == {<<1, 0>>, <<1, 1>>, <<2, 1>>}
BatchVersions == {1, 2}
BatchValues == {1, 2}
StoredValues == {3}

\* orm::NewSlot as upsert_slots builds it
NewSlot(account_id, slot, value, modify_tx, ordinal, valid_from) ==
    [account_id |-> account_id, slot |-> slot, value |-> value, previous_value |-> NULL,
     modify_tx |-> modify_tx, ordinal |-> ordinal, valid_from |-> valid_from,
     valid_to |-> NULL]

NewRows == {NewSlot(e[1], e[2], v, 1, 1, t) :
                e \in BatchEntities, v \in BatchValues, t \in BatchVersions}
StoredRows == {[NewSlot(e[1], e[2], v, 0, 1, 0) EXCEPT !.valid_to = vt] :
                e \in BatchEntities, v \in StoredValues, vt \in {NULL, 1}}

SortKeys(rows) == [i \in DOMAIN rows |-> get_sort_key(rows[i])]

InitVersioning ==
    /\ batch \in SeqsUpTo(NewRows, MaxBatch)
    /\ contract_storage \in SeqsUpTo(StoredRows, MaxDbRows)
    /\ last = [op |-> "none"]
    /\ block = {} /\ transaction = {} /\ account = <<>>
    /\ account_balance = <<>> /\ contract_code = <<>>
    /\ protocol_component = <<>> /\ protocol_state = <<>> /\ component_balance = <<>>
    /\ account_seq = 0 /\ protocol_component_seq = 0 /\ cursor = 0 /\ snap = EmptyMap
    /\ default_partition = <<>>

\* set_versioning_attributes on its own (a non-empty batch)
SetVersioningAttributes ==
    /\ last.op = "none" /\ batch # <<>>
    /\ last' = [op |-> "set_versioning_attributes",
                out |-> set_versioning_attributes(batch)]
    /\ UNCHANGED <<tables, seqs, default_partition, cursor, snap, batch>>

SetDeltaVersioningAttributes ==
    /\ last.op = "none" /\ batch # <<>>
    /\ last' = [op |-> "set_delta_versioning_attributes",
                out |-> set_delta_versioning_attributes(batch)]
    /\ UNCHANGED <<tables, seqs, default_partition, cursor, snap, batch>>

ApplyVersioning ==
    /\ last.op = "none"
    /\ LET r == apply_versioning(batch, contract_storage)
       IN /\ contract_storage' = r.table
          /\ last' = [op |-> "apply_versioning", new_data |-> r.new_data,
                      before |-> contract_storage]
    /\ UNCHANGED <<block, transaction, account, account_balance, contract_code,
                   protocol_component, protocol_state, component_balance,
                   seqs, default_partition, cursor, snap, batch>>

ApplyDeltaVersioning ==
    /\ last.op = "none"
    /\ \E db_order \in Orders(latest_versions_by_ids(
                                 {get_entity_id(batch[i]) : i \in DOMAIN batch},
                                 contract_storage)) :
         LET r == apply_delta_versioning(batch, contract_storage, db_order)
         IN /\ contract_storage' = r.table
            /\ last' = [op |-> "apply_delta_versioning", new_data |-> r.new_data,
                        before |-> contract_storage]
    /\ UNCHANGED <<block, transaction, account, account_balance, contract_code,
                   protocol_component, protocol_state, component_balance,
                   seqs, default_partition, cursor, snap, batch>>

NextVersioning ==
    \/ SetVersioningAttributes
    \/ SetDeltaVersioningAttributes
    \/ ApplyVersioning
    \/ ApplyDeltaVersioning

SpecVersioning == InitVersioning /\ [][NextVersioning]_vars

\* ------------------------------------------------------- the database
Chain == 1
Now == MaxBlock + 1     \* Utc::now(): later than the ts of every stored block
Addresses == {1, 2}
\* the contracts whose creation transaction is always known; the others are
\* added with or without one
Deployed == {1}
Slots == {0}
Values == {1}

DB == [block |-> block, transaction |-> transaction, account |-> account,
       account_balance |-> account_balance, contract_code |-> contract_code,
       contract_storage |-> contract_storage, protocol_component |-> protocol_component,
       protocol_state |-> protocol_state, component_balance |-> component_balance,
       account_seq |-> account_seq,
       protocol_component_seq |-> protocol_component_seq]

\* The id of the transaction with the given index in the given block.  A
\* transaction's hash is modelled by its id; 0 is the hash of no transaction.
TxId(number, index) == (number - 1) * TxPerBlock + index

\* db_fixtures::insert_blocks / insert_txns: a block and its transactions
insert_block(db, chain_id, number) ==
    LET id == (chain_id - 1) * MaxBlock + number    \* the serial, one range per chain
    IN [db EXCEPT
          !.block = @ \cup {[id |-> id, chain_id |-> chain_id, number |-> number,
                             ts |-> number]},
          !.transaction = @ \cup {[id |-> TxId(id, i), block_id |-> id, index |-> i]
                                     : i \in 1..TxPerBlock}]

\* transaction INNER JOIN block: the stored transaction of a hash with its block ts
tx_by_hash(db, hash) == {t \in db.transaction : t.id = hash}
block_ts(db, tx) == (CHOOSE b \in db.block : b.id = tx.block_id).ts
\* Block::by_number
block_by_number(db, chain_id, number) ==
    {b \in db.block : b.number = number /\ b.chain_id = chain_id}
\* Account::by_id without the filter on the chain
account_by_address(db, chain_id, address) ==
    {i \in DOMAIN db.account : db.account[i].address = address}

\* Account::by_id: the accounts of a chain with an address
account_by_id(db, chain_id, address) ==
    {i \in DOMAIN db.account :
        db.account[i].address = address /\ db.account[i].chain_id = chain_id}

\* ethers::utils::keccak256: the hash of a byte string, as a term
keccak256(bytes) == <<"keccak256", bytes>>

\* hex::encode of an address, addresses taken one byte long
hex_encode(address) == <<address \div 16, address % 16>>

\* U256::to_big_endian into n bytes: the n least significant base-256 digits of
\* v, the most significant first
RECURSIVE to_big_endian(_, _)
to_big_endian(v, n) ==
    IF n = 0 THEN <<>> ELSE Append(to_big_endian(v \div 256, n - 1), v % 256)

\* u256_to_bytes keeping the least significant byte alone
u256_to_bytes_low_byte(v) == to_big_endian(v, 1)

\* u256_to_bytes: the 32 bytes of a balance
u256_to_bytes(v) == to_big_endian(v, 32)

\* U256::from_big_endian: the number a byte string denotes
RECURSIVE from_big_endian(_)
from_big_endian(bytes) ==
    IF bytes = <<>> THEN 0
    ELSE from_big_endian(SubSeq(bytes, 1, Len(bytes) - 1)) * 256 + bytes[Len(bytes)]

\* evm::Account::to_storage(chain_id, creation_ts, tx_id): the orm::NewContract
to_storage(new, chain_id, creation_ts, tx_id) ==
    [title |-> new.title, address |-> new.address, chain_id |-> chain_id,
     creation_tx |-> tx_id, created_at |-> creation_ts, deleted_at |-> NULL,
     balance |-> u256_to_bytes(new.balance), code |-> new.code,
     code_hash |-> new.code_hash]

\* evm::Account::from_storage(val, chain, balance_modify_tx, code_modify_tx,
\* creation_tx): the account of an orm::Contract, with no slots
from_storage(val, chain, balance_modify_tx, code_modify_tx, creation_tx) ==
    [chain |-> chain, address |-> val.account.address, title |-> val.account.title,
     slots |-> EmptyMap, balance |-> from_big_endian(val.balance.balance),
     code |-> val.code.code, code_hash |-> val.code.hash,
     balance_modify_tx |-> balance_modify_tx, code_modify_tx |-> code_modify_tx,
     creation_tx |-> creation_tx]

\* add_contract(new, db): every step that ran before an error stays written
add_contract(db, new) ==
    LET creation == tx_by_hash(db, new.creation_tx)
        balance_tx == tx_by_hash(db, new.balance_modify_tx)
        code_tx == tx_by_hash(db, new.code_modify_tx)
        account_id == db.account_seq + 1
        created_ts == IF new.creation_tx = NULL THEN Now
                      ELSE block_ts(db, CHOOSE t \in creation : TRUE)
        new_contract == to_storage(new, new.chain_id, created_ts, new.creation_tx)
        \* NewContract::new_account, with the id the insert returns
        new_account == [id |-> account_id, chain_id |-> new_contract.chain_id,
                        title |-> new_contract.title,
                        address |-> new_contract.address,
                        creation_tx |-> new_contract.creation_tx,
                        created_at |-> new_contract.created_at, deletion_tx |-> NULL,
                        deleted_at |-> NULL]
        db1 == [db EXCEPT !.account = Append(@, new_account),
                          !.account_seq = account_id]
        new_balance(t) == [account_id |-> account_id, balance |-> new_contract.balance,
                           modify_tx |-> t.id, valid_from |-> block_ts(db, t),
                           valid_to |-> NULL]
        db2 == [db1 EXCEPT !.account_balance =
                   Append(@, new_balance(CHOOSE t \in balance_tx : TRUE))]
        new_code(t) == [account_id |-> account_id, code |-> new_contract.code,
                        hash |-> new_contract.code_hash,
                        modify_tx |-> t.id, valid_from |-> block_ts(db, t),
                        valid_to |-> NULL]
        db3 == [db2 EXCEPT !.contract_code =
                   Append(@, new_code(CHOOSE t \in code_tx : TRUE))]
    IN IF new.creation_tx # NULL /\ creation = {}
       THEN [res |-> "NoRelatedEntity", db |-> db]
       ELSE IF account_by_id(db, new.chain_id, new.address) # {}
       THEN [res |-> "DuplicateEntry", db |-> db]
       ELSE IF balance_tx = {} THEN [res |-> "NoRelatedEntity", db |-> db1]
       ELSE IF code_tx = {} THEN [res |-> "NoRelatedEntity", db |-> db2]
       ELSE [res |-> "Ok", db |-> db3]

\* The insert into contract_storage: the new rows are versioned against the open
\* rows of the table (apply_delta_versioning, in the order of their sort keys) and
\* appended
insert_contract_storage(table, new_entries, db_order) ==
    LET sorted == StableSort(new_entries, [i \in DOMAIN new_entries |->
                                              get_sort_key(new_entries[i])])
        r == apply_delta_versioning(sorted, table, db_order)
    IN r.table \o r.new_data

\* the first of the positions `hits` of a sequence, or 0
FirstIndex(hits) == IF hits = {} THEN 0 ELSE Min(hits)

\* upsert_slots inserting the entries that precede the first missing reference
upsert_slots_partial(db, slots, db_order) ==
    LET account_ids(address) == {i \in DOMAIN db.account : db.account[i].address = address}
        Missing(e) == tx_by_hash(db, e.tx) = {} \/ account_ids(e.address) = {}
        bad == FirstIndex({i \in DOMAIN slots : Missing(slots[i])})
        new_entry(e) ==
            LET t == CHOOSE t \in tx_by_hash(db, e.tx) : TRUE
                a == db.account[Max(account_ids(e.address))]
            IN NewSlot(a.id, e.slot, e.value, t.id, t.index, block_ts(db, t))
        good == IF bad = 0 THEN slots ELSE SubSeq(slots, 1, bad - 1)
        new_entries == [i \in DOMAIN good |-> new_entry(good[i])]
    IN [res |-> IF bad # 0 THEN "NoRelatedEntity" ELSE "Ok",
        db |-> [db EXCEPT !.contract_storage =
                   insert_contract_storage(@, new_entries, db_order)]]

\* upsert_slots(slots, conn): slots is a sequence of [tx, address, slot, value]
upsert_slots(db, slots, db_order) ==
    LET account_ids(address) == {i \in DOMAIN db.account : db.account[i].address = address}
        Missing(e) == tx_by_hash(db, e.tx) = {} \/ account_ids(e.address) = {}
        bad == FirstIndex({i \in DOMAIN slots : Missing(slots[i])})
        new_entry(e) ==
            LET t == CHOOSE t \in tx_by_hash(db, e.tx) : TRUE
                a == db.account[Max(account_ids(e.address))]
            IN NewSlot(a.id, e.slot, e.value, t.id, t.index, block_ts(db, t))
        new_entries == [i \in DOMAIN slots |-> new_entry(slots[i])]
    IN IF bad # 0 THEN [res |-> "NoRelatedEntity", db |-> db]
       ELSE [res |-> "Ok",
             db |-> [db EXCEPT !.contract_storage =
                        insert_contract_storage(@, new_entries, db_order)]]

\* UPDATE t SET valid_to = ts WHERE account_id = id
close_rows_of(table, id, ts) ==
    [i \in DOMAIN table |->
        IF table[i].account_id = id THEN [table[i] EXCEPT !.valid_to = ts] ELSE table[i]]

\* delete_contract without the check of account.deletion_tx
delete_contract_unchecked(db, chain_id, address, at_tx) ==
    LET found == account_by_id(db, chain_id, address)
        i == Min(found)
        acc == db.account[i]
        txs == tx_by_hash(db, at_tx)
        tx == CHOOSE t \in txs : TRUE
        ts == block_ts(db, tx)
    IN IF found = {} THEN [res |-> "NotFound", db |-> db]
       ELSE IF txs = {} THEN [res |-> "NoRelatedEntity", db |-> db]
       ELSE [res |-> "Ok",
             db |-> [db EXCEPT
                !.account[i] = [acc EXCEPT !.deletion_tx = tx.id, !.deleted_at = ts],
                !.contract_storage = close_rows_of(@, acc.id, ts),
                !.account_balance = close_rows_of(@, acc.id, ts),
                !.contract_code = close_rows_of(@, acc.id, ts)]]

\* delete_contract without the UPDATE of contract_code
delete_contract_keep_code(db, chain_id, address, at_tx) ==
    LET found == account_by_id(db, chain_id, address)
        i == Min(found)
        acc == db.account[i]
        txs == tx_by_hash(db, at_tx)
        tx == CHOOSE t \in txs : TRUE
        ts == block_ts(db, tx)
    IN IF found = {} THEN [res |-> "NotFound", db |-> db]
       ELSE IF txs = {} THEN [res |-> "NoRelatedEntity", db |-> db]
       ELSE IF acc.deletion_tx # NULL
       THEN [res |-> IF tx.id # acc.deletion_tx THEN "Unexpected" ELSE "Ok", db |-> db]
       ELSE [res |-> "Ok",
             db |-> [db EXCEPT
                !.account[i] = [acc EXCEPT !.deletion_tx = tx.id, !.deleted_at = ts],
                !.contract_storage = close_rows_of(@, acc.id, ts),
                !.account_balance = close_rows_of(@, acc.id, ts)]]

\* delete_contract(id, at_tx, conn)
delete_contract(db, chain_id, address, at_tx) ==
    LET found == account_by_id(db, chain_id, address)
        i == Min(found)
        acc == db.account[i]
        txs == tx_by_hash(db, at_tx)
        tx == CHOOSE t \in txs : TRUE
        ts == block_ts(db, tx)
    IN IF found = {} THEN [res |-> "NotFound", db |-> db]
       ELSE IF txs = {} THEN [res |-> "NoRelatedEntity", db |-> db]
       ELSE IF acc.deletion_tx # NULL
       THEN [res |-> IF tx.id # acc.deletion_tx THEN "Unexpected" ELSE "Ok", db |-> db]
       ELSE [res |-> "Ok",
             db |-> [db EXCEPT
                !.account[i] = [acc EXCEPT !.deletion_tx = tx.id, !.deleted_at = ts],
                !.contract_storage = close_rows_of(@, acc.id, ts),
                !.account_balance = close_rows_of(@, acc.id, ts),
                !.contract_code = close_rows_of(@, acc.id, ts)]]

\* The foreign keys of the schema, when blocks are deleted: ON DELETE CASCADE from
\* block to transaction, from transaction to the rows it created or modified
\* (creation_tx, modify_tx) and from an account or component to its rows;
\* deletion_tx is ON DELETE SET NULL
delete_blocks(db, gone) ==
    LET gone_tx == {t.id : t \in {x \in db.transaction : x.block_id \in gone}}
        KeepEntity(e) == e.creation_tx \notin gone_tx
        gone_acc == {db.account[i].id : i \in {j \in DOMAIN db.account :
                                                  ~KeepEntity(db.account[j])}}
        gone_pc == {db.protocol_component[i].id :
                       i \in {j \in DOMAIN db.protocol_component :
                                 ~KeepEntity(db.protocol_component[j])}}
        UnsetDeletion(e) == IF e.deletion_tx \in gone_tx
                            THEN [e EXCEPT !.deletion_tx = NULL] ELSE e
        KeepAccRow(r) == r.modify_tx \notin gone_tx /\ r.account_id \notin gone_acc
        KeepPcRow(r) == r.modify_tx \notin gone_tx /\ r.protocol_component_id \notin gone_pc
        kept_acc == SelectSeq(db.account, KeepEntity)
        kept_pc == SelectSeq(db.protocol_component, KeepEntity)
    IN [db EXCEPT
          !.block = {b \in @ : b.id \notin gone},
          !.transaction = {t \in @ : t.id \notin gone_tx},
          !.account = [i \in DOMAIN kept_acc |-> UnsetDeletion(kept_acc[i])],
          !.protocol_component = [i \in DOMAIN kept_pc |-> UnsetDeletion(kept_pc[i])],
          !.account_balance = SelectSeq(@, KeepAccRow),
          !.contract_code = SelectSeq(@, KeepAccRow),
          !.contract_storage = SelectSeq(@, KeepAccRow),
          !.protocol_state = SelectSeq(@, KeepPcRow),
          !.component_balance = SelectSeq(@, KeepPcRow)]

\* UPDATE t SET valid_to = NULL WHERE valid_to > ts
reopen_rows(table, ts) ==
    [i \in DOMAIN table |->
        IF table[i].valid_to # NULL /\ table[i].valid_to > ts
        THEN [table[i] EXCEPT !.valid_to = NULL] ELSE table[i]]

\* UPDATE t SET deleted_at = NULL WHERE deleted_at > ts
undelete_rows(table, ts) ==
    [i \in DOMAIN table |->
        IF table[i].deleted_at # NULL /\ table[i].deleted_at > ts
        THEN [table[i] EXCEPT !.deleted_at = NULL] ELSE table[i]]

\* revert_contract_state without the DELETE of the later blocks
revert_contract_state_keep_blocks(db, chain_id, number) ==
    LET found == block_by_number(db, chain_id, number)
        b == CHOOSE x \in found : TRUE
    IN IF found = {} THEN [res |-> "NotFound", db |-> db]
       ELSE [res |-> "Ok",
             db |-> [db EXCEPT
                !.contract_storage = reopen_rows(@, b.ts),
                !.account_balance = reopen_rows(@, b.ts),
                !.contract_code = reopen_rows(@, b.ts),
                !.protocol_state = reopen_rows(@, b.ts),
                !.account = undelete_rows(@, b.ts),
                !.protocol_component = undelete_rows(@, b.ts)]]

\* revert_contract_state deleting the blocks with number >= to.number
revert_contract_state_from_target(db, chain_id, number) ==
    LET found == block_by_number(db, chain_id, number)
        b == CHOOSE x \in found : TRUE
        gone == {x.id : x \in {y \in db.block : y.number >= b.number
                                                /\ y.chain_id = b.chain_id}}
        db1 == delete_blocks(db, gone)
    IN IF found = {} THEN [res |-> "NotFound", db |-> db]
       ELSE [res |-> "Ok",
             db |-> [db1 EXCEPT
                !.contract_storage = reopen_rows(@, b.ts),
                !.account_balance = reopen_rows(@, b.ts),
                !.contract_code = reopen_rows(@, b.ts),
                !.protocol_state = reopen_rows(@, b.ts),
                !.account = undelete_rows(@, b.ts),
                !.protocol_component = undelete_rows(@, b.ts)]]

\* revert_contract_state(to, conn), with to = BlockIdentifier::Number((chain, number)).
\* The code also re-opens protocol_calls_contract, a table that is not modelled;
\* it does not touch component_balance.
revert_contract_state(db, chain_id, number) ==
    LET found == block_by_number(db, chain_id, number)
        b == CHOOSE x \in found : TRUE
        gone == {x.id : x \in {y \in db.block : y.number > b.number
                                                /\ y.chain_id = b.chain_id}}
        db1 == delete_blocks(db, gone)
    IN IF found = {} THEN [res |-> "NotFound", db |-> db]
       ELSE [res |-> "Ok",
             db |-> [db1 EXCEPT
                !.contract_storage = reopen_rows(@, b.ts),
                !.account_balance = reopen_rows(@, b.ts),
                !.contract_code = reopen_rows(@, b.ts),
                !.protocol_state = reopen_rows(@, b.ts),
                !.account = undelete_rows(@, b.ts),
                !.protocol_component = undelete_rows(@, b.ts)]]

\* ------------------------------------------------- the protocol gateway
ProtocolSystem == 1
Components == {1, 2}        \* external ids of protocol components
Attributes == {1}           \* attribute names
Tokens == {1}
Balances == {1, 2}

\* ProtocolComponent::ids_by_external_ids
ids_by_external_ids(db, chain_id, external_id) ==
    {i \in DOMAIN db.protocol_component :
        /\ db.protocol_component[i].external_id = external_id
        /\ db.protocol_component[i].chain_id = chain_id}

\* add_protocol_components(new, conn): new is a sequence of
\* [chain_id, external_id, creation_tx, created_at]; the insert is
\* ON CONFLICT (chain_id, protocol_system_id, external_id) DO NOTHING, and
\* every offered row draws an id from the serial
RECURSIVE insert_protocol_components(_, _)
insert_protocol_components(db, values) ==
    IF values = <<>> THEN db
    ELSE LET v == Head(values)
             id == db.protocol_component_seq + 1
             row == [id |-> id, chain_id |-> v.chain_id, external_id |-> v.external_id,
                     protocol_system_id |-> ProtocolSystem,
                     creation_tx |-> v.creation_tx, created_at |-> v.created_at,
                     deletion_tx |-> NULL, deleted_at |-> NULL]
             conflict == \E i \in DOMAIN db.protocol_component :
                            /\ db.protocol_component[i].chain_id = v.chain_id
                            /\ db.protocol_component[i].protocol_system_id = ProtocolSystem
                            /\ db.protocol_component[i].external_id = v.external_id
             db1 == [db EXCEPT !.protocol_component_seq = id,
                               !.protocol_component =
                                   IF conflict THEN @ ELSE Append(@, row)]
         IN insert_protocol_components(db1, Tail(values))

add_protocol_components(db, new) ==
    LET Unknown(pc) == tx_by_hash(db, pc.creation_tx) = {}
    IN IF FirstIndex({i \in DOMAIN new : Unknown(new[i])}) # 0 THEN [res |-> "DecodeError", db |-> db]
       ELSE [res |-> "Ok", db |-> insert_protocol_components(db, new)]

\* orm::NewProtocolState::new
NewProtocolState(protocol_component_id, attribute_name, attribute_value, modify_tx, valid_from) ==
    [protocol_component_id |-> protocol_component_id, attribute_name |-> attribute_name,
     attribute_value |-> attribute_value, previous_value |-> NULL,
     modify_tx |-> modify_tx, valid_from |-> valid_from, valid_to |-> NULL]

\* update_protocol_states: "Invalidate older states", the walk over the sorted rows
invalidate_older_states(state_data) ==
    [i \in DOMAIN state_data |->
        IF /\ i + 1 <= Len(state_data)
           /\ state_data[i].protocol_component_id = state_data[i + 1].protocol_component_id
           /\ state_data[i].attribute_name = state_data[i + 1].attribute_name
        THEN [state_data[i] EXCEPT !.valid_to = state_data[i + 1].valid_from]
        ELSE state_data[i]]

\* update_protocol_states(chain, new, conn): new is a sequence of deltas
\* [component_id, attribute_name, attribute_value, modify_tx], each with one
\* updated attribute.  The rows are sorted by component, attribute name and
\* transaction index, and inserted; rows already stored are left as they are.
update_protocol_states(db, chain_id, new) ==
    LET Unknown(d) == \/ tx_by_hash(db, d.modify_tx) = {}
                      \/ ids_by_external_ids(db, chain_id, d.component_id) = {}
        tx_db(d) == CHOOSE t \in tx_by_hash(db, d.modify_tx) : TRUE
        component_db_id(d) ==
            db.protocol_component[Max(ids_by_external_ids(db, chain_id, d.component_id))].id
        state(d) == NewProtocolState(component_db_id(d), d.attribute_name,
                                     d.attribute_value, tx_db(d).id, block_ts(db, tx_db(d)))
        state_data == [i \in DOMAIN new |-> state(new[i])]
        keys == [i \in DOMAIN new |-> <<state_data[i].protocol_component_id,
                                        state_data[i].attribute_name,
                                        tx_db(new[i]).index>>]
        sorted == StableSort(state_data, keys)
    IN IF FirstIndex({i \in DOMAIN new : Unknown(new[i])}) # 0 THEN [res |-> "panic", db |-> db]
       ELSE [res |-> "Ok",
             db |-> [db EXCEPT !.protocol_state = @ \o invalidate_older_states(sorted)]]

\* orm::NewComponentBalance::new without a previous value
NewComponentBalance(token_id, new_balance, modify_tx, protocol_component_id, valid_from) ==
    [token_id |-> token_id, new_balance |-> new_balance, previous_value |-> 0,
     modify_tx |-> modify_tx, protocol_component_id |-> protocol_component_id,
     valid_from |-> valid_from, valid_to |-> NULL]

\* The writer of component balances: new is a sequence of
\* [component_id, token_id, new_balance, modify_tx]; the rows are versioned against
\* the open rows of the table (apply_delta_versioning) and inserted
add_component_balances(db, chain_id, new, db_order) ==
    LET Unknown(c) == \/ tx_by_hash(db, c.modify_tx) = {}
                      \/ ids_by_external_ids(db, chain_id, c.component_id) = {}
        tx_db(c) == CHOOSE t \in tx_by_hash(db, c.modify_tx) : TRUE
        component_db_id(c) ==
            db.protocol_component[Max(ids_by_external_ids(db, chain_id, c.component_id))].id
        row(c) == NewComponentBalance(c.token_id, c.new_balance, tx_db(c).id,
                                      component_db_id(c), block_ts(db, tx_db(c)))
        rows == [i \in DOMAIN new |-> row(new[i])]
        sorted == StableSort(rows, [i \in DOMAIN rows |-> get_sort_key(rows[i])])
        r == apply_delta_versioning(sorted, db.component_balance, db_order)
    IN IF FirstIndex({i \in DOMAIN new : Unknown(new[i])}) # 0 THEN [res |-> "NoRelatedEntity", db |-> db]
       ELSE [res |-> "Ok", db |-> [db EXCEPT !.component_balance = r.table \o r.new_data]]

\* ------------------------------------------------------------- the reads
\* valid_from <= T AND (valid_to > T OR valid_to IS NULL)
valid_at(r, T) == r.valid_from <= T /\ (r.valid_to = NULL \/ r.valid_to > T)

\* the functions that pick, for every d of D, one of its candidates
Choices(cand) ==
    {f \in [DOMAIN cand -> UNION {cand[d] : d \in DOMAIN cand}] :
        \A d \in DOMAIN cand : f[d] \in cand[d]}

\* SELECT DISTINCT ON (entity): of the rows `rows` of `table`, the ones a query may
\* keep for entity k when it orders them by their keys descending (ascending if
\* ~desc); key[i] is the key of row i.
\* Rows that tie on the key come in an order the database chooses.
distinct_on(table, rows, k, key, desc) ==
    LET mine == {i \in rows : get_entity_id(table[i]) = k}
    IN {i \in mine : \A j \in mine :
            IF desc THEN ~LexLess(key[i], key[j])
            ELSE ~LexLess(key[j], key[i])}

account_of(db, id) == db.account[CHOOSE i \in DOMAIN db.account : db.account[i].id = id]

\* construct_account_to_contract_store: (account id, slot, value) rows as a map
\* from (address, slot); picks[k] is the row kept for entity k and values[i] the
\* selected column of row i
construct_account_to_contract_store(db, picks, values) ==
    LET keys == {<<account_of(db, k[1]).address, k[2]>> : k \in DOMAIN picks}
        IdOf(a) == CHOOSE k \in DOMAIN picks : account_of(db, k[1]).address = a[1]
                                                  /\ k[2] = a[2]
    IN [a \in keys |-> values[picks[IdOf(a)]]]

\* the columns of contract_storage a query orders by or selects, per row
StorageKey(cs) == [i \in DOMAIN cs |-> <<cs[i].valid_from, cs[i].ordinal>>]
StorageValue(cs) == [i \in DOMAIN cs |-> cs[i].value]
StoragePrevious(cs) == [i \in DOMAIN cs |-> cs[i].previous_value]

\* get_contract_slots keeping the first row of a slot instead of the last
get_contract_slots_oldest_first(db, chain_id, T) ==
    LET cs == db.contract_storage
        rows == {i \in DOMAIN cs : /\ account_of(db, cs[i].account_id).chain_id = chain_id
                                   /\ valid_at(cs[i], T)}
        keys == {get_entity_id(cs[i]) : i \in rows}
        Top(k) == distinct_on(cs, rows, k, StorageKey(cs), FALSE)
    IN {construct_account_to_contract_store(db, picks, StorageValue(cs)) :
            picks \in Choices([k \in keys |-> Top(k)])}

\* get_contract_slots(chain, None, at, conn) at the timestamp T of the version:
\* the maps it may return
get_contract_slots(db, chain_id, T) ==
    LET cs == db.contract_storage
        rows == {i \in DOMAIN cs : /\ account_of(db, cs[i].account_id).chain_id = chain_id
                                   /\ valid_at(cs[i], T)}
        keys == {get_entity_id(cs[i]) : i \in rows}
        Top(k) == distinct_on(cs, rows, k, StorageKey(cs), TRUE)
    IN {construct_account_to_contract_store(db, picks, StorageValue(cs)) :
            picks \in Choices([k \in keys |-> Top(k)])}

\* get_slots_delta keeping, in both directions, the latest row of a slot
get_slots_delta_latest_first(db, chain_id, start_version_ts, target_version_ts) ==
    LET cs == db.contract_storage
        forward == start_version_ts <= target_version_ts
        lo == IF forward THEN start_version_ts ELSE target_version_ts
        hi == IF forward THEN target_version_ts ELSE start_version_ts
        rows == {i \in DOMAIN cs : /\ account_of(db, cs[i].account_id).chain_id = chain_id
                                   /\ cs[i].valid_from > lo
                                   /\ cs[i].valid_from <= hi}
        keys == {get_entity_id(cs[i]) : i \in rows}
        Top(k) == distinct_on(cs, rows, k, StorageKey(cs), TRUE)
    IN {IF forward THEN construct_account_to_contract_store(db, picks, StorageValue(cs))
        ELSE construct_account_to_contract_store(db, picks, StoragePrevious(cs)) :
            picks \in Choices([k \in keys |-> Top(k)])}

\* get_slots_delta keeping, in both directions, the first row of a slot
get_slots_delta_earliest_first(db, chain_id, start_version_ts, target_version_ts) ==
    LET cs == db.contract_storage
        forward == start_version_ts <= target_version_ts
        lo == IF forward THEN start_version_ts ELSE target_version_ts
        hi == IF forward THEN target_version_ts ELSE start_version_ts
        rows == {i \in DOMAIN cs : /\ account_of(db, cs[i].account_id).chain_id = chain_id
                                   /\ cs[i].valid_from > lo
                                   /\ cs[i].valid_from <= hi}
        keys == {get_entity_id(cs[i]) : i \in rows}
        Top(k) == distinct_on(cs, rows, k, StorageKey(cs), FALSE)
    IN {IF forward THEN construct_account_to_contract_store(db, picks, StorageValue(cs))
        ELSE construct_account_to_contract_store(db, picks, StoragePrevious(cs)) :
            picks \in Choices([k \in keys |-> Top(k)])}

\* get_slots_delta returning, in both directions, the value of the row it keeps
get_slots_delta_current_value(db, chain_id, start_version_ts, target_version_ts) ==
    LET cs == db.contract_storage
        forward == start_version_ts <= target_version_ts
        lo == IF forward THEN start_version_ts ELSE target_version_ts
        hi == IF forward THEN target_version_ts ELSE start_version_ts
        rows == {i \in DOMAIN cs : /\ account_of(db, cs[i].account_id).chain_id = chain_id
                                   /\ cs[i].valid_from > lo
                                   /\ cs[i].valid_from <= hi}
        keys == {get_entity_id(cs[i]) : i \in rows}
        Top(k) == distinct_on(cs, rows, k, StorageKey(cs), forward)
    IN {construct_account_to_contract_store(db, picks, StorageValue(cs)) :
            picks \in Choices([k \in keys |-> Top(k)])}

\* get_slots_delta(chain, start, target, conn) between two timestamps: the maps
\* it may return
get_slots_delta(db, chain_id, start_version_ts, target_version_ts) ==
    LET cs == db.contract_storage
        forward == start_version_ts <= target_version_ts
        lo == IF forward THEN start_version_ts ELSE target_version_ts
        hi == IF forward THEN target_version_ts ELSE start_version_ts
        rows == {i \in DOMAIN cs : /\ account_of(db, cs[i].account_id).chain_id = chain_id
                                   /\ cs[i].valid_from > lo
                                   /\ cs[i].valid_from <= hi}
        keys == {get_entity_id(cs[i]) : i \in rows}
        Top(k) == distinct_on(cs, rows, k, StorageKey(cs), forward)
    IN {IF forward THEN construct_account_to_contract_store(db, picks, StorageValue(cs))
        ELSE construct_account_to_contract_store(db, picks, StoragePrevious(cs)) :
            picks \in Choices([k \in keys |-> Top(k)])}

TxIndex(db, r) == <<(CHOOSE t \in db.transaction : t.id = r.modify_tx).index>>

\* get_contracts(chain, None, version, include_slots = true, conn) at the timestamp
\* T of the version: the results it may return.  `chain_id.eq(chain_id)` is written
\* inside `use schema::account::dsl::*`, where chain_id names the column: the
\* accounts are not filtered by chain.
get_contracts(db, chain_id, T) ==
    LET Listed(a) == a.created_at <= T /\ (a.deleted_at = NULL \/ a.deleted_at > T)
        accounts == SelectSeq(db.account, Listed)
        account_ids == {accounts[i].id : i \in DOMAIN accounts}
        Joined(table) == {i \in DOMAIN table :
                             /\ table[i].account_id \in account_ids
                             /\ valid_at(table[i], T)
                             /\ \E t \in db.transaction : t.id = table[i].modify_tx}
        bal_rows == Joined(db.account_balance)
        code_rows == Joined(db.contract_code)
        bal_keys == {get_entity_id(db.account_balance[i]) : i \in bal_rows}
        code_keys == {get_entity_id(db.contract_code[i]) : i \in code_rows}
        ByIndex(table) == [i \in DOMAIN table |-> TxIndex(db, table[i])]
        TopBalance(k) == distinct_on(db.account_balance, bal_rows, k,
                                    ByIndex(db.account_balance), TRUE)
        TopCode(k) == distinct_on(db.contract_code, code_rows, k,
                                 ByIndex(db.contract_code), TRUE)
        \* set_store: the slots of the contract, a missing value read as zero
        Store(slots, address) ==
            [s \in {k[2] : k \in {x \in DOMAIN slots : x[1] = address}} |->
                IF slots[<<address, s>>] = NULL THEN 0 ELSE slots[<<address, s>>]]
        Contract(a, bal, code, slots) ==
            [from_storage([account |-> a, balance |-> bal, code |-> code],
                          chain_id, bal.modify_tx, code.modify_tx, a.creation_tx)
             EXCEPT !.slots = Store(slots, a.address)]
    IN IF ~(Len(accounts) = Cardinality(bal_keys)
            /\ Cardinality(bal_keys) = Cardinality(code_keys))
       THEN {[res |-> "Unexpected"]}
       ELSE {[res |-> "Ok",
              contracts |-> [i \in DOMAIN accounts |->
                  Contract(accounts[i],
                           db.account_balance[bals[<<accounts[i].id>>]],
                           db.contract_code[codes[<<accounts[i].id>>]],
                           slots)]] :
                bals \in Choices([k \in bal_keys |-> TopBalance(k)]),
                codes \in Choices([k \in code_keys |-> TopCode(k)]),
                slots \in get_contract_slots(db, chain_id, T)}

\* impl From<diesel::result::Error>: the error `?` makes of a diesel error that
\* no from_diesel call has mapped
DieselError == "Unexpected"

\* the columns of account_balance / contract_code joined with transaction that
\* get_contract orders by, per row: (valid_from, transaction index)
VersionKey(db, table) ==
    [i \in DOMAIN table |-> <<table[i].valid_from>> \o TxIndex(db, table[i])]

\* get_contract ordering balance and code by the transaction index alone
get_contract_by_index(db, chain_id, address, T) ==
    LET found == account_by_id(db, chain_id, address)
        account_orm == db.account[Min(found)]
        Joined(table) == {i \in DOMAIN table :
                             /\ table[i].account_id = account_orm.id
                             /\ valid_at(table[i], T)
                             /\ \E t \in db.transaction : t.id = table[i].modify_tx}
        ByIndex(table) == [i \in DOMAIN table |-> TxIndex(db, table[i])]
        balances == distinct_on(db.account_balance, Joined(db.account_balance),
                                <<account_orm.id>>, ByIndex(db.account_balance), TRUE)
        codes == distinct_on(db.contract_code, Joined(db.contract_code),
                             <<account_orm.id>>, ByIndex(db.contract_code), TRUE)
        creation_tx == IF tx_by_hash(db, account_orm.creation_tx) = {} THEN NULL
                       ELSE account_orm.creation_tx
    IN IF found = {}
       THEN {[res |-> "NotFound", entity |-> "Account", id |-> hex_encode(address)]}
       ELSE IF balances = {} \/ codes = {} THEN {[res |-> DieselError]}
       ELSE {[res |-> "Ok",
              contract |-> from_storage([account |-> account_orm,
                                         balance |-> db.account_balance[b],
                                         code |-> db.contract_code[c]],
                                        account_orm.chain_id,
                                        db.account_balance[b].modify_tx,
                                        db.contract_code[c].modify_tx, creation_tx)] :
                b \in balances, c \in codes}

\* get_contract(id, version, db) at the timestamp T of the version (now() when
\* there is none): the results it may return.  The account is found by chain and
\* address alone; `.first()` of the balance or of the code query on no row is a
\* diesel NotFound that `?` turns into Unexpected("DieselError: ...").
get_contract(db, chain_id, address, T) ==
    LET found == account_by_id(db, chain_id, address)
        account_orm == db.account[Min(found)]
        Joined(table) == {i \in DOMAIN table :
                             /\ table[i].account_id = account_orm.id
                             /\ valid_at(table[i], T)
                             /\ \E t \in db.transaction : t.id = table[i].modify_tx}
        balances == distinct_on(db.account_balance, Joined(db.account_balance),
                                <<account_orm.id>>, VersionKey(db, db.account_balance), TRUE)
        codes == distinct_on(db.contract_code, Joined(db.contract_code),
                             <<account_orm.id>>, VersionKey(db, db.contract_code), TRUE)
        creation_tx == IF tx_by_hash(db, account_orm.creation_tx) = {} THEN NULL
                       ELSE account_orm.creation_tx
    IN IF found = {}
       THEN {[res |-> "NotFound", entity |-> "Account", id |-> hex_encode(address)]}
       ELSE IF balances = {} \/ codes = {} THEN {[res |-> DieselError]}
       ELSE {[res |-> "Ok",
              contract |-> from_storage([account |-> account_orm,
                                         balance |-> db.account_balance[b],
                                         code |-> db.contract_code[c]],
                                        account_orm.chain_id,
                                        db.account_balance[b].modify_tx,
                                        db.contract_code[c].modify_tx, creation_tx)] :
                b \in balances, c \in codes}

\* What a client can read at a timestamp: get_contracts with slots and
\* get_contract_slots
Observable(db, T) ==
    [contracts |-> get_contracts(db, Chain, T), slots |-> get_contract_slots(db, Chain, T)]

\* --------------------------------------- specification of the contract gateway
Tip == IF block = {} THEN 0 ELSE Max({b.number : b \in block})
\* the transactions of the tip block whose changes may still be written: an
\* extractor writes the changes of a block in the order of its transactions
Pending == {t \in transaction : t.block_id = Tip /\ t.id >= cursor}

Write(db) ==
    /\ block' = db.block /\ transaction' = db.transaction /\ account' = db.account
    /\ account_balance' = db.account_balance /\ contract_code' = db.contract_code
    /\ contract_storage' = db.contract_storage
    /\ protocol_component' = db.protocol_component
    /\ protocol_state' = db.protocol_state
    /\ component_balance' = db.component_balance
    /\ account_seq' = db.account_seq
    /\ protocol_component_seq' = db.protocol_component_seq
    /\ default_partition' = default_partition

Init ==
    /\ block = {} /\ transaction = {} /\ account = <<>>
    /\ account_balance = <<>> /\ contract_code = <<>> /\ contract_storage = <<>>
    /\ protocol_component = <<>> /\ protocol_state = <<>> /\ component_balance = <<>>
    /\ account_seq = 0 /\ protocol_component_seq = 0 /\ cursor = 0 /\ snap = EmptyMap
    /\ default_partition = <<>>
    /\ batch = <<>> /\ last = [op |-> "none"]

\* the next block and its transactions arrive; what was readable at the old tip
\* is remembered
InsertBlock ==
    /\ Tip < MaxBlock
    /\ Write(insert_block(DB, Chain, Tip + 1))
    /\ cursor' = TxId(Tip + 1, 1)
    /\ snap' = IF Tip >= 1 /\ Tip \notin DOMAIN snap
               THEN HashMapInsert(snap, Tip, Observable(DB, Tip)) ELSE snap
    /\ last' = [op |-> "write"]
    /\ UNCHANGED batch

AddContract ==
    \E t \in Pending, address \in Addresses,
       creation_tx \in {NULL} \cup {x.id : x \in Pending} :
        /\ creation_tx = IF address \in Deployed \/ creation_tx # NULL THEN t.id ELSE NULL
        /\ account_seq < MaxAccounts
        /\ LET r == add_contract(DB, [chain_id |-> Chain, address |-> address,
                                      creation_tx |-> creation_tx,
                                      balance_modify_tx |-> t.id,
                                      code_modify_tx |-> t.id,
                                      title |-> address, balance |-> 100,
                                      code |-> address,
                                      code_hash |-> keccak256(address)])
           IN /\ Write(r.db)
              /\ last' = [op |-> "write"]
        /\ cursor' = t.id
        /\ UNCHANGED <<snap, batch>>

\* the SlotChangeSets an extractor sends: changes of pending transactions in the
\* order of the transactions, no slot twice in one transaction, none of a
\* deleted contract
SlotChangeSets ==
    LET Entries == [tx : {t.id : t \in Pending}, address : Addresses, slot : Slots,
                    value : Values \cup {NULL}]
        Written(e) == \E i \in DOMAIN contract_storage :
                         /\ contract_storage[i].modify_tx = e.tx
                         /\ contract_storage[i].slot = e.slot
                         /\ account_of(DB, contract_storage[i].account_id).address = e.address
        Deleted(e) == \E i \in DOMAIN account :
                         account[i].address = e.address /\ account[i].deleted_at # NULL
    IN {s \in SeqsUpTo(Entries, MaxChanges) :
          /\ s # <<>>
          /\ \A i \in DOMAIN s : ~Written(s[i]) /\ ~Deleted(s[i])
          /\ \A i, j \in DOMAIN s :
                i < j => /\ s[i].tx <= s[j].tx
                         /\ (s[i].tx = s[j].tx =>
                               <<s[i].address, s[i].slot>> # <<s[j].address, s[j].slot>>)}

UpsertSlots ==
    \E slots \in SlotChangeSets :
        /\ Len(contract_storage) + Len(slots) <= MaxStorageRows
        /\ \E db_order \in Orders({i \in DOMAIN contract_storage :
                                      contract_storage[i].valid_to = NULL
                                      /\ \E j \in DOMAIN slots :
                                            contract_storage[i].slot = slots[j].slot}) :
             LET r == upsert_slots(DB, slots, db_order)
             IN /\ Write(r.db)
                /\ last' = [op |-> "write"]
        /\ cursor' = slots[Len(slots)].tx
        /\ UNCHANGED <<snap, batch>>

DeleteContract ==
    \E t \in Pending, address \in Addresses :
        /\ LET r == delete_contract(DB, Chain, address, t.id)
           IN /\ Write(r.db)
              /\ last' = [op |-> "write"]
        /\ cursor' = t.id
        /\ UNCHANGED <<snap, batch>>

\* revert_contract_state(to): snap[to] is what was readable at to.ts when the
\* writes of block `to` had been ingested, and no more of them are accepted
RevertContractState ==
    \E number \in 1..MaxBlock :
        LET r == revert_contract_state(DB, Chain, number)
            expected == IF number \in DOMAIN snap THEN snap[number]
                        ELSE Observable(DB, number)
        IN /\ Write(r.db)
           /\ IF r.res = "Ok"
              THEN /\ last' = [op |-> "revert_contract_state", res |-> r.res,
                               to |-> number]
                   /\ cursor' = TxId(number, TxPerBlock) + 1
                   /\ snap' = [n \in {k \in (DOMAIN snap) \cup {number} : k <= number} |->
                                  IF n = number THEN expected ELSE snap[n]]
              ELSE /\ last' = [op |-> "revert_contract_state", res |-> r.res]
                   /\ UNCHANGED <<cursor, snap>>
           /\ UNCHANGED batch

Next ==
    \/ InsertBlock
    \/ AddContract
    \/ UpsertSlots
    \/ DeleteContract
    \/ RevertContractState

Spec == Init /\ [][Next]_vars

\* ------------------------------------- histories set up through db_fixtures
Chains == {Chain, 2}
FixtureBalances == {300}
FixtureCodes == {3}

\* db_fixtures::insert_account_balance(conn, new_balance, tx_id, valid_to, account)
insert_account_balance(db, new_balance, tx_id, valid_to, account_id) ==
    LET ts == block_ts(db, CHOOSE t \in tx_by_hash(db, tx_id) : TRUE)
    IN [db EXCEPT !.account_balance =
           Append(@, [account_id |-> account_id,
                      balance |-> to_big_endian(new_balance, 32),
                      modify_tx |-> tx_id, valid_from |-> ts, valid_to |-> valid_to])]

\* db_fixtures::insert_contract_code(conn, account_id, modify_tx, code)
insert_contract_code(db, account_id, modify_tx, code) ==
    LET ts == block_ts(db, CHOOSE t \in tx_by_hash(db, modify_tx) : TRUE)
    IN [db EXCEPT !.contract_code =
           Append(@, [account_id |-> account_id, code |-> code,
                      hash |-> keccak256(code), modify_tx |-> modify_tx,
                      valid_from |-> ts, valid_to |-> NULL])]

\* db_fixtures::insert_blocks / insert_txns
InsertBlocks ==
    /\ Tip < MaxBlock
    /\ Write(insert_block(DB, Chain, Tip + 1))
    /\ last' = [op |-> "write"]
    /\ UNCHANGED <<cursor, snap, batch>>

\* add_contract of a contract of any chain, created, funded and deployed by a
\* transaction of the tip block
AddContractOfChain ==
    \E t \in transaction, chain_id \in Chains, address \in Addresses :
        /\ t.block_id = Tip
        /\ account_seq < MaxAccounts
        /\ LET r == add_contract(DB, [chain_id |-> chain_id, address |-> address,
                                      creation_tx |-> t.id,
                                      balance_modify_tx |-> t.id,
                                      code_modify_tx |-> t.id,
                                      title |-> address, balance |-> 100,
                                      code |-> address,
                                      code_hash |-> keccak256(address)])
           IN /\ Write(r.db)
              /\ last' = [op |-> "write"]
        /\ UNCHANGED <<cursor, snap, batch>>

\* a balance version of a stored account that is not deleted, written by a
\* transaction of the tip block, open or closed at a later timestamp
InsertAccountBalance ==
    \E i \in DOMAIN account, t \in transaction, new_balance \in FixtureBalances,
       valid_to \in {NULL, Now} :
        /\ t.block_id = Tip
        /\ account[i].deleted_at = NULL
        /\ Len(account_balance) < Len(account) + MaxFixtureRows
        /\ Write(insert_account_balance(DB, new_balance, t.id, valid_to, account[i].id))
        /\ last' = [op |-> "write"]
        /\ UNCHANGED <<cursor, snap, batch>>

\* a code version of a stored account that is not deleted, written by a
\* transaction of the tip block
InsertContractCode ==
    \E i \in DOMAIN account, t \in transaction, code \in FixtureCodes :
        /\ t.block_id = Tip
        /\ account[i].deleted_at = NULL
        /\ Len(contract_code) < Len(account) + MaxFixtureRows
        /\ Write(insert_contract_code(DB, account[i].id, t.id, code))
        /\ last' = [op |-> "write"]
        /\ UNCHANGED <<cursor, snap, batch>>

\* delete_contract of a contract of any chain by a transaction of the tip block
DeleteContractOfChain ==
    \E t \in transaction, chain_id \in Chains, address \in Addresses :
        /\ t.block_id = Tip
        /\ LET r == delete_contract(DB, chain_id, address, t.id)
           IN /\ Write(r.db)
              /\ last' = [op |-> "write"]
        /\ UNCHANGED <<cursor, snap, batch>>

NextFixtures ==
    \/ InsertBlocks
    \/ AddContractOfChain
    \/ InsertAccountBalance
    \/ InsertContractCode
    \/ DeleteContractOfChain

SpecFixtures == Init /\ [][NextFixtures]_vars

\* ------------------------------------- the contract gateway on several chains
\* the tip block of a chain, if it has one
TipOf(chain_id) ==
    {b \in block : /\ b.chain_id = chain_id
                   /\ \A o \in block : o.chain_id = chain_id => o.number <= b.number}

\* the next block of a chain and its transactions
InsertBlockOfChain ==
    \E chain_id \in Chains :
        LET number == IF TipOf(chain_id) = {} THEN 1
                      ELSE (CHOOSE b \in TipOf(chain_id) : TRUE).number + 1
        IN /\ number <= MaxBlock
           /\ Write(insert_block(DB, chain_id, number))
           /\ last' = [op |-> "write"]
           /\ UNCHANGED <<cursor, snap, batch>>

\* add_contract of a contract of a chain, created, funded and deployed by the
\* first transaction of the tip block of that chain
AddContractOnChain ==
    \E chain_id \in Chains, b \in block, address \in Addresses :
        /\ b \in TipOf(chain_id)
        /\ account_seq < MaxAccounts
        /\ account_by_id(DB, chain_id, address) = {}
        /\ LET r == add_contract(DB, [chain_id |-> chain_id, address |-> address,
                                      creation_tx |-> TxId(b.id, 1),
                                      balance_modify_tx |-> TxId(b.id, 1),
                                      code_modify_tx |-> TxId(b.id, 1),
                                      title |-> address, balance |-> 100,
                                      code |-> address,
                                      code_hash |-> keccak256(address)])
           IN /\ Write(r.db)
              /\ last' = [op |-> "write"]
        /\ UNCHANGED <<cursor, snap, batch>>

\* delete_contract of a contract of a chain by a transaction of the tip block of
\* that chain
DeleteContractOnChain ==
    \E chain_id \in Chains, t \in transaction, address \in Addresses :
        /\ \E b \in TipOf(chain_id) : t.block_id = b.id
        /\ LET r == delete_contract(DB, chain_id, address, t.id)
           IN /\ Write(r.db)
              /\ last' = [op |-> "write"]
        /\ UNCHANGED <<cursor, snap, batch>>

\* revert_contract_state(to) for a block of any chain
RevertChain ==
    \E chain_id \in Chains, number \in 1..MaxBlock :
        LET r == revert_contract_state(DB, chain_id, number)
        IN /\ Write(r.db)
           /\ last' = [op |-> "revert_contract_state", res |-> r.res,
                       chain_id |-> chain_id, to |-> number]
           /\ UNCHANGED <<cursor, snap, batch>>

NextChains ==
    \/ InsertBlockOfChain
    \/ AddContractOnChain
    \/ DeleteContractOnChain
    \/ RevertChain

SpecChains == Init /\ [][NextChains]_vars

\* ------------------------- two writers of contract_storage (apply_versioning)
\* Each writer runs apply_versioning on its batch and inserts it, in a
\* transaction of its own: contract_storage holds the committed rows, snap[w] is
\* where writer w stands (pc), the rows its snapshot shows (seen) and its result,
\* batch[w] its new rows, last.isolation how the two are run.
Writers == {1, 2}
Isolations == {"serialised", "repeatable read"}

\* set_versioning_attributes(new_data) of writer w
VersionedBatch(w) == set_versioning_attributes(batch[w])
\* S::latest_versions_by_ids(end_versions.keys()) on the snapshot of writer w
OpenRowsSeen(w) == latest_versions_by_ids(DOMAIN VersionedBatch(w).db_updates, snap[w].seen)
\* writer w holds the row locks of an UPDATE that is not committed
HoldsLocks(w) == snap[w].pc \in {"updated", "inserted"}

InitWriters ==
    /\ contract_storage \in {<<>>, <<NewSlot(1, 0, 3, 0, 1, 0)>>}
    /\ batch \in {b \in [Writers -> {<<NewSlot(1, slot, w, w, 1, t)>> :
                                        w \in Writers, slot \in {0, 1}, t \in BatchVersions}] :
                    \A w \in Writers : b[w][1].modify_tx = w}
    /\ snap = [w \in Writers |-> [pc |-> "idle", seen |-> <<>>, res |-> "none"]]
    /\ last \in [op : {"none"}, isolation : Isolations]
    /\ block = {} /\ transaction = {} /\ account = <<>>
    /\ account_balance = <<>> /\ contract_code = <<>>
    /\ protocol_component = <<>> /\ protocol_state = <<>> /\ component_balance = <<>>
    /\ account_seq = 0 /\ protocol_component_seq = 0 /\ cursor = 0
    /\ default_partition = <<>>

\* first round trip: the transaction takes its snapshot and reads the open rows.
\* Writers serialised by their caller start when the other one is not running.
WriterRead(w) ==
    /\ snap[w].pc = "idle"
    /\ last.isolation = "serialised" =>
          \A o \in Writers \ {w} : snap[o].pc \in {"idle", "done"}
    /\ snap' = [snap EXCEPT ![w].pc = "read", ![w].seen = contract_storage]
    /\ UNCHANGED <<tables, seqs, default_partition, cursor, batch, last>>

\* second round trip, when open rows were read: the batch UPDATE.  It waits for
\* the row locks of the other writer; a row that was changed by a transaction
\* committed after the snapshot makes it fail (could not serialize access due to
\* concurrent update) and the transaction is rolled back.
WriterUpdate(w) ==
    /\ snap[w].pc = "read" /\ OpenRowsSeen(w) # {}
    /\ \A o \in Writers \ {w} : HoldsLocks(o) => OpenRowsSeen(o) \cap OpenRowsSeen(w) = {}
    /\ snap' = IF \E i \in OpenRowsSeen(w) : contract_storage[i] # snap[w].seen[i]
               THEN [snap EXCEPT ![w].pc = "done", ![w].res = "Err"]
               ELSE [snap EXCEPT ![w].pc = "updated"]
    /\ UNCHANGED <<tables, seqs, default_partition, cursor, batch, last>>

\* the INSERT of the new rows by the caller of apply_versioning
WriterInsert(w) ==
    /\ \/ snap[w].pc = "updated"
       \/ snap[w].pc = "read" /\ OpenRowsSeen(w) = {}
    /\ snap' = [snap EXCEPT ![w].pc = "inserted"]
    /\ UNCHANGED <<tables, seqs, default_partition, cursor, batch, last>>

\* COMMIT: the closed rows and the new rows become visible
WriterCommit(w) ==
    /\ snap[w].pc = "inserted"
    /\ contract_storage' =
          build_batch_update_query(OpenRowsSeen(w), contract_storage,
                                   VersionedBatch(w).db_updates)
             \o VersionedBatch(w).objects
    /\ snap' = [snap EXCEPT ![w].pc = "done", ![w].res = "Ok"]
    /\ UNCHANGED <<block, transaction, account, account_balance, contract_code,
                   protocol_component, protocol_state, component_balance,
                   seqs, default_partition, cursor, batch, last>>

NextWriters ==
    \/ \E w \in Writers : WriterRead(w)
    \/ \E w \in Writers : WriterUpdate(w)
    \/ \E w \in Writers : WriterInsert(w)
    \/ \E w \in Writers : WriterCommit(w)

SpecWriters == InitWriters /\ [][NextWriters]_vars

\* ------------------------------------ stream_blocks (substreams/stream.rs)
\* The generator of stream_blocks: cursor is the cursor the stream was made with
\* (NULL for None), last holds where the generator stands (pc), latest_cursor,
\* the number of delays taken from backoff since its last reset, the cause of the
\* current connection attempt (why) and the delay slept before it (slept, 0 for
\* none), and the number of responses of the endpoint so far (n); batch is what
\* was yielded to the consumer, snap the requests sent, each with the number of
\* items yielded before it.
MaxResponses == 5
Cursors == {1, 2}
\* Option<String>::unwrap_or_default: the empty cursor is 0
unwrap_or_default(c) == IF c = NULL THEN 0 ELSE c

\* DEFAULT_BACKOFF, the n-th delay in ms after a reset (n from 0):
\* ExponentialBackoff::from_millis(500).max_delay(45 s)
backoff_next(n) == IF n = 0 THEN 500 ELSE 45000

\* what the endpoint may send on a connected stream
Responses ==
    [kind : {"BlockScopedData"}, cursor : Cursors]
        \cup [kind : {"BlockUndoSignal"}, last_valid_cursor : Cursors]
        \cup [kind : {"Skip"}]
        \cup [kind : {"TonicError"}, code : {"Unauthenticated", "Unavailable"}]

\* the variant that keeps the cursor when an undo signal was yielded
cursor_of_kept_on_undo(item, latest_cursor) ==
    IF item.kind = "BlockScopedData" THEN item.cursor ELSE latest_cursor

\* the cursor taken from a yielded item: block_scoped_data.cursor or
\* block_undo_signal.last_valid_cursor
cursor_of(item, latest_cursor) ==
    IF item.kind = "BlockScopedData" THEN item.cursor ELSE item.last_valid_cursor

InitStream ==
    /\ cursor \in {NULL} \cup Cursors
    /\ last = [pc |-> "retry_loop", latest_cursor |-> unwrap_or_default(cursor),
               backoff |-> 0, why |-> "start", slept |-> 0, n |-> 0]
    /\ batch = <<>> /\ snap = <<>>
    /\ block = {} /\ transaction = {} /\ account = <<>>
    /\ account_balance = <<>> /\ contract_code = <<>> /\ contract_storage = <<>>
    /\ protocol_component = <<>> /\ protocol_state = <<>> /\ component_balance = <<>>
    /\ account_seq = 0 /\ protocol_component_seq = 0
    /\ default_partition = <<>>

\* the top of 'retry_loop: endpoint.substreams(Request { start_cursor:
\* latest_cursor, .. }).await, which connects or fails.  After a failure the
\* error is logged and the loop starts over.
Connect ==
    /\ last.pc = "retry_loop" /\ last.n < MaxResponses
    /\ snap' = Append(snap, [start_cursor |-> last.latest_cursor, yielded |-> Len(batch),
                             why |-> last.why, slept |-> last.slept])
    /\ \E result \in {"Ok", "Err"} :
          last' = IF result = "Ok"
                  THEN [last EXCEPT !.pc = "stream", !.n = @ + 1, !.slept = 0]
                  ELSE [last EXCEPT !.why = "connect_error", !.n = @ + 1, !.slept = 0]
    /\ UNCHANGED <<tables, seqs, default_partition, cursor, batch>>

\* one response of the stream, through process_substreams_response: a block or
\* an undo signal resets backoff and is yielded; a tonic error ends the stream
\* when it is Unauthenticated, and else sleeps for the next delay and retries
Receive ==
    \E response \in Responses :
        /\ last.pc = "stream" /\ last.n < MaxResponses
        /\ IF response.kind \in {"BlockScopedData", "BlockUndoSignal"}
           THEN /\ batch' = Append(batch, response)
                /\ last' = [last EXCEPT !.pc = "yield", !.backoff = 0, !.n = @ + 1]
           ELSE /\ batch' = batch
                /\ last' = IF response.kind = "Skip" THEN [last EXCEPT !.n = @ + 1]
                           ELSE IF response.code = "Unauthenticated"
                           THEN [last EXCEPT !.pc = "error", !.n = @ + 1]
                           ELSE [last EXCEPT !.pc = "retry_loop", !.why = "tonic_error",
                                             !.slept = backoff_next(last.backoff),
                                             !.backoff = @ + 1, !.n = @ + 1]
        /\ UNCHANGED <<tables, seqs, default_partition, cursor, snap>>

\* the consumer polls again after an item: latest_cursor = cursor
Resume ==
    /\ last.pc = "yield"
    /\ last' = [last EXCEPT !.pc = "stream",
                            !.latest_cursor = cursor_of(batch[Len(batch)], @)]
    /\ UNCHANGED <<tables, seqs, default_partition, cursor, snap, batch>>

\* the stream of the endpoint ends: "Stream completed, reached end block"
Completed ==
    /\ last.pc = "stream"
    /\ last' = [last EXCEPT !.pc = "return"]
    /\ UNCHANGED <<tables, seqs, default_partition, cursor, snap, batch>>

NextStream ==
    \/ Connect
    \/ Receive
    \/ Resume
    \/ Completed

SpecStream == InitStream /\ [][NextStream]_vars

\* histories written through add_contract and upsert_slots alone
NextSlots ==
    \/ InsertBlock
    \/ AddContract
    \/ UpsertSlots

SpecSlots == Init /\ [][NextSlots]_vars

\* ------------------------------------- specification of partitioned versioning
PartitionIds == {1, 2}
FarFuture == Now + 1    \* the valid_to of a current row: a date far in the future

PartitionedRow(id, value, valid_from) ==
    [id |-> id, value |-> value, valid_from |-> valid_from, valid_to |-> FarFuture]

\* the default partition holds at most one row per id (its primary key)
InitPartitioned ==
    /\ batch \in SeqsUpTo({PartitionedRow(id, v, t) :
                               id \in PartitionIds, v \in BatchValues, t \in BatchVersions},
                          MaxBatch)
    /\ \E ids \in SUBSET PartitionIds :
          \E order \in Orders(ids) :
             /\ \A i, j \in DOMAIN order : i < j => order[i] < order[j]
             /\ default_partition = [i \in DOMAIN order |-> PartitionedRow(order[i], 3, 0)]
    /\ last = [op |-> "none"]
    /\ block = {} /\ transaction = {} /\ account = <<>>
    /\ account_balance = <<>> /\ contract_code = <<>> /\ contract_storage = <<>>
    /\ protocol_component = <<>> /\ protocol_state = <<>> /\ component_balance = <<>>
    /\ account_seq = 0 /\ protocol_component_seq = 0 /\ cursor = 0 /\ snap = EmptyMap

ApplyPartitionedVersioning ==
    /\ last.op = "none"
    /\ \E deleted \in SUBSET PartitionIds, retention_horizon \in 0..Now :
         \E delete_versions \in [deleted -> 1..Now] :
            \E db_order \in Orders(partitioned_latest_versions_by_ids(
                                       {get_id(batch[i]) : i \in DOMAIN batch} \cup deleted,
                                       default_partition)) :
               LET r == apply_partitioned_versioning(batch, delete_versions,
                                                     retention_horizon,
                                                     default_partition, db_order)
               IN last' = [op |-> "apply_partitioned_versioning",
                           delete_versions |-> delete_versions,
                           retention_horizon |-> retention_horizon,
                           db_order |-> db_order,
                           latest |-> r.latest, archive |-> r.archive]
    /\ UNCHANGED <<tables, seqs, default_partition, cursor, snap, batch>>

NextPartitioned == ApplyPartitionedVersioning

SpecPartitioned == InitPartitioned /\ [][NextPartitioned]_vars

\* --------------------------------------- specification of the protocol gateway
AddProtocolComponents ==
    \E t \in Pending, external_id \in Components :
        /\ protocol_component_seq < MaxComponents
        /\ LET r == add_protocol_components(DB, <<[chain_id |-> Chain,
                                                   external_id |-> external_id,
                                                   creation_tx |-> t.id,
                                                   created_at |-> block_ts(DB, t)]>>)
           IN /\ Write(r.db)
              /\ last' = [op |-> "write"]
        /\ cursor' = t.id
        /\ UNCHANGED <<snap, batch>>

\* the deltas an extractor sends: changes of pending transactions to stored
\* components, no attribute twice in one transaction, in any order
StateDeltas ==
    LET Deltas == [component_id : {protocol_component[i].external_id :
                                       i \in DOMAIN protocol_component},
                   attribute_name : Attributes, attribute_value : Values,
                   modify_tx : {t.id : t \in Pending}]
        Written(d) == \E i \in DOMAIN protocol_state :
                         /\ protocol_state[i].modify_tx = d.modify_tx
                         /\ protocol_state[i].attribute_name = d.attribute_name
                         /\ protocol_state[i].protocol_component_id \in
                               {protocol_component[j].id :
                                   j \in ids_by_external_ids(DB, Chain, d.component_id)}
    IN {s \in SeqsUpTo(Deltas, MaxChanges) :
          /\ s # <<>>
          /\ \A i \in DOMAIN s : ~Written(s[i])
          /\ \A i, j \in DOMAIN s :
                i < j => <<s[i].modify_tx, s[i].component_id, s[i].attribute_name>> #
                         <<s[j].modify_tx, s[j].component_id, s[j].attribute_name>>}

UpdateProtocolStates ==
    \E new \in StateDeltas :
        /\ Len(protocol_state) + Len(new) <= MaxStateRows
        /\ LET r == update_protocol_states(DB, Chain, new)
           IN /\ Write(r.db)
              /\ last' = [op |-> "write"]
        /\ cursor' = Max({new[i].modify_tx : i \in DOMAIN new})
        /\ UNCHANGED <<snap, batch>>

\* one balance change of a pending transaction, at most one per token,
\* component and block
AddComponentBalances ==
    \E t \in Pending, i \in DOMAIN protocol_component, token_id \in Tokens,
       new_balance \in Balances :
        /\ Len(component_balance) < MaxBalanceRows
        /\ ~\E k \in DOMAIN component_balance :
               /\ component_balance[k].protocol_component_id = protocol_component[i].id
               /\ component_balance[k].token_id = token_id
               /\ component_balance[k].valid_from = block_ts(DB, t)
        /\ \E db_order \in Orders(latest_versions_by_ids(
                                     {<<protocol_component[i].id, token_id>>},
                                     component_balance)) :
             LET r == add_component_balances(DB, Chain,
                          <<[component_id |-> protocol_component[i].external_id,
                             token_id |-> token_id, new_balance |-> new_balance,
                             modify_tx |-> t.id]>>, db_order)
             IN /\ Write(r.db)
                /\ last' = [op |-> "write"]
        /\ cursor' = t.id
        /\ UNCHANGED <<snap, batch>>

NextProtocol ==
    \/ InsertBlock
    \/ AddProtocolComponents
    \/ UpdateProtocolStates
    \/ AddComponentBalances
    \/ RevertContractState

SpecProtocol == Init /\ [][NextProtocol]_vars

\* ------------------------------ protocol states set up through db_fixtures
FixtureAttributes == {1, 2}

\* db_fixtures::insert_protocol_component(conn, id, chain_id, system_id, type_id,
\* tx_id, None, None)
insert_protocol_component(db, id, chain_id, system_id, tx_id) ==
    LET ts == block_ts(db, CHOOSE t \in tx_by_hash(db, tx_id) : TRUE)
        component_id == db.protocol_component_seq + 1
    IN [db EXCEPT !.protocol_component_seq = component_id,
                  !.protocol_component =
                      Append(@, [id |-> component_id, chain_id |-> chain_id,
                                 external_id |-> id, protocol_system_id |-> system_id,
                                 creation_tx |-> tx_id, created_at |-> ts,
                                 deletion_tx |-> NULL, deleted_at |-> NULL])]

\* db_fixtures::insert_protocol_state(conn, component_id, tx_id, attribute_name,
\* attribute_value, previous_value, valid_to_tx)
insert_protocol_state(db, component_id, tx_id, attribute_name, attribute_value, previous_value, valid_to_tx) ==
    LET ts == block_ts(db, CHOOSE t \in tx_by_hash(db, tx_id) : TRUE)
        valid_to_ts == IF valid_to_tx = NULL THEN NULL
                       ELSE block_ts(db, CHOOSE t \in tx_by_hash(db, valid_to_tx) : TRUE)
    IN [db EXCEPT !.protocol_state =
           Append(@, [protocol_component_id |-> component_id,
                      attribute_name |-> attribute_name,
                      attribute_value |-> attribute_value,
                      previous_value |-> previous_value, modify_tx |-> tx_id,
                      valid_from |-> ts, valid_to |-> valid_to_ts])]

\* the external id of the component of a protocol_state row
external_id_of(db, r) ==
    (CHOOSE c \in Range(db.protocol_component) : c.id = r.protocol_component_id).external_id

\* (transaction::block_id, transaction::index) of the modify_tx of every row
TxOrder(db, table) ==
    [i \in DOMAIN table |->
        LET t == CHOOSE t \in db.transaction : t.id = table[i].modify_tx
        IN <<t.block_id, t.index>>]

\* the bag of the entries entry[i] of the rows i of a set
BagOfRows(rows, entry) ==
    [e \in {entry[i] : i \in rows} |-> Cardinality({i \in rows : entry[i] = e})]

\* protocol_state INNER JOIN protocol_component INNER JOIN transaction, of a chain
StatesOfChain(db, chain_id) ==
    {i \in DOMAIN db.protocol_state :
        /\ \E c \in Range(db.protocol_component) :
              c.id = db.protocol_state[i].protocol_component_id /\ c.chain_id = chain_id
        /\ tx_by_hash(db, db.protocol_state[i].modify_tx) # {}}

\* reverse_delta_by_chain without the NOT EXISTS subquery
reverse_delta_by_chain_all_ended(db, chain_id, start_ts, target_ts) ==
    LET ps == db.protocol_state
        query == StatesOfChain(db, chain_id)
        reverted == {i \in query : ps[i].valid_from > target_ts /\ ps[i].valid_from <= start_ts}
        keys == {get_entity_id(ps[i]) : i \in reverted}
        First(k) == distinct_on(ps, reverted, k, TxOrder(db, ps), FALSE)
        deleted == {i \in query : /\ ps[i].valid_to # NULL
                                  /\ ps[i].valid_to <= start_ts
                                  /\ ps[i].valid_to > target_ts
                                  /\ ps[i].valid_from <= target_ts}
        previous == [i \in DOMAIN ps |->
                        <<external_id_of(db, ps[i]), ps[i].attribute_name, ps[i].previous_value>>]
        value == [i \in DOMAIN ps |->
                     <<external_id_of(db, ps[i]), ps[i].attribute_name, ps[i].attribute_value>>]
    IN {BagOfRows({picks[k] : k \in keys}, previous) (+) BagOfRows(deleted, value) :
            picks \in Choices([k \in keys |-> First(k)])}

\* ProtocolState::reverse_delta_by_chain(chain_id, start_ts, target_ts, conn): the
\* bags of (external_id, attribute_name, value) it may return, the first update
\* of every attribute changed in ]target_ts, start_ts] with its previous value
\* UNION ALL the rows that ended in it and of which no version is valid at
\* start_ts, with their value
reverse_delta_by_chain(db, chain_id, start_ts, target_ts) ==
    LET ps == db.protocol_state
        query == StatesOfChain(db, chain_id)
        reverted == {i \in query : ps[i].valid_from > target_ts /\ ps[i].valid_from <= start_ts}
        keys == {get_entity_id(ps[i]) : i \in reverted}
        First(k) == distinct_on(ps, reverted, k, TxOrder(db, ps), FALSE)
        NotExists(i) == ~\E j \in DOMAIN ps :
                            /\ ps[j].protocol_component_id = ps[i].protocol_component_id
                            /\ ps[j].attribute_name = ps[i].attribute_name
                            /\ valid_at(ps[j], start_ts)
        deleted == {i \in query : /\ ps[i].valid_to # NULL
                                  /\ ps[i].valid_to <= start_ts
                                  /\ ps[i].valid_to > target_ts
                                  /\ ps[i].valid_from <= target_ts
                                  /\ NotExists(i)}
        previous == [i \in DOMAIN ps |->
                        <<external_id_of(db, ps[i]), ps[i].attribute_name, ps[i].previous_value>>]
        value == [i \in DOMAIN ps |->
                     <<external_id_of(db, ps[i]), ps[i].attribute_name, ps[i].attribute_value>>]
    IN {BagOfRows({picks[k] : k \in keys}, previous) (+) BagOfRows(deleted, value) :
            picks \in Choices([k \in keys |-> First(k)])}

\* ProtocolState::deleted_attributes_by_chain(chain_id, start_ts, end_ts, conn):
\* the bag of (external_id, attribute_name) of the rows that ended in
\* ]start_ts, end_ts] and of which no version is valid at end_ts
deleted_attributes_by_chain(db, chain_id, start_ts, end_ts) ==
    LET ps == db.protocol_state
        NotExists(i) == ~\E j \in DOMAIN ps :
                            /\ ps[j].protocol_component_id = ps[i].protocol_component_id
                            /\ ps[j].attribute_name = ps[i].attribute_name
                            /\ valid_at(ps[j], end_ts)
        rows == {i \in StatesOfChain(db, chain_id) :
                    /\ ps[i].valid_to # NULL
                    /\ ps[i].valid_to <= end_ts
                    /\ ps[i].valid_to > start_ts
                    /\ NotExists(i)}
    IN BagOfRows(rows, [i \in DOMAIN ps |-> <<external_id_of(db, ps[i]), ps[i].attribute_name>>])

\* ProtocolState::by_id(component_ids, chain_id, version_ts, conn): the row
\* sequences (state, external id, tx hash) it may return, ordered by external id,
\* block and transaction index; version_ts is NULL for no version, and then
\* `valid_to > NULL` holds of no row
by_id(db, component_ids, chain_id, version_ts) ==
    LET ps == db.protocol_state
        rows == {i \in StatesOfChain(db, chain_id) :
                    /\ external_id_of(db, ps[i]) \in component_ids
                    /\ \/ ps[i].valid_to = NULL
                       \/ version_ts # NULL /\ ps[i].valid_to > version_ts
                    /\ version_ts # NULL => ps[i].valid_from <= version_ts}
        key == [i \in DOMAIN ps |-> <<external_id_of(db, ps[i])>> \o TxOrder(db, ps)[i]]
    IN {[n \in DOMAIN order |-> [state |-> ps[order[n]],
                                  component_id |-> external_id_of(db, ps[order[n]]),
                                  tx |-> ps[order[n]].modify_tx]] :
            order \in {o \in Orders(rows) :
                          \A m, n \in DOMAIN o : m < n => ~LexLess(key[o[n]], key[o[m]])}}

\* the length of the group of rows of one component id a row sequence starts with
RECURSIVE GroupLen(_)
GroupLen(data_vec) ==
    IF Len(data_vec) <= 1 THEN Len(data_vec)
    ELSE IF data_vec[2].component_id # data_vec[1].component_id THEN 1
    ELSE 1 + GroupLen(Tail(data_vec))

\* _decode_protocol_states passing the transaction of the first row of a group
RECURSIVE decode_protocol_states_first_tx(_)
decode_protocol_states_first_tx(data_vec) ==
    IF data_vec = <<>> THEN <<>>
    ELSE LET i == GroupLen(data_vec)
             states_slice == SubSeq(data_vec, 1, i)
         IN <<[component_id |-> data_vec[1].component_id,
               states |-> [n \in DOMAIN states_slice |-> states_slice[n].state],
               modify_tx |-> states_slice[1].tx]>>
            \o decode_protocol_states_first_tx(SubSeq(data_vec, i + 1, Len(data_vec)))

\* _decode_protocol_states(Ok(data_vec), context, from_storage_fn): the arguments
\* from_storage_fn is called with, one call per group of adjacent rows of one
\* component id
RECURSIVE decode_protocol_states(_)
decode_protocol_states(data_vec) ==
    IF data_vec = <<>> THEN <<>>
    ELSE LET i == GroupLen(data_vec)
             states_slice == SubSeq(data_vec, 1, i)
         IN <<[component_id |-> data_vec[1].component_id,
               states |-> [n \in DOMAIN states_slice |-> states_slice[n].state],
               modify_tx |-> states_slice[Len(states_slice)].tx]>>
            \o decode_protocol_states(SubSeq(data_vec, i + 1, Len(data_vec)))

\* get_protocol_states(chain, at, None, Some(ids), conn)
get_protocol_states(db, chain_id, version_ts, ids) ==
    {decode_protocol_states(data_vec) : data_vec \in by_id(db, ids, chain_id, version_ts)}

\* a component of a new external id, created by a transaction of the tip block
InsertProtocolComponent ==
    \E t \in transaction, id \in Components :
        /\ t.block_id = Tip /\ t.index = 1
        /\ protocol_component_seq < MaxComponents
        /\ ids_by_external_ids(DB, Chain, id) = {}
        /\ Write(insert_protocol_component(DB, id, Chain, ProtocolSystem, t.id))
        /\ last' = [op |-> "write"]
        /\ UNCHANGED <<cursor, snap, batch>>

\* a version of an attribute of a stored component, written by a stored
\* transaction, open or ended by a later transaction: one of the same block or
\* the first one of a later block.  No transaction writes an attribute twice and
\* no two versions of an attribute are valid at the same time.
InsertProtocolState ==
    \E i \in DOMAIN protocol_component, t \in transaction,
       attribute_name \in FixtureAttributes,
       valid_to_tx \in {NULL} \cup {x.id : x \in transaction} :
        /\ Len(protocol_state) < MaxStateRows
        /\ t.block_id >= protocol_component[i].created_at
        /\ valid_to_tx # NULL =>
              \E x \in transaction :
                 /\ x.id = valid_to_tx
                 /\ \/ x.index = 1 /\ x.block_id > t.block_id
                    \/ x.index > t.index /\ x.block_id = t.block_id
        /\ LET End(to) == IF to = NULL THEN Now + 1 ELSE to
               added == insert_protocol_state(DB, protocol_component[i].id, t.id,
                                              attribute_name, t.id, NULL, valid_to_tx)
               row == added.protocol_state[Len(added.protocol_state)]
           IN /\ \A j \in DOMAIN protocol_state :
                    get_entity_id(protocol_state[j]) = get_entity_id(row) =>
                       /\ protocol_state[j].modify_tx # row.modify_tx
                       /\ ~(/\ protocol_state[j].valid_from < End(row.valid_to)
                            /\ row.valid_from < End(protocol_state[j].valid_to))
              /\ Write(added)
        /\ last' = [op |-> "write"]
        /\ UNCHANGED <<cursor, snap, batch>>

NextStates ==
    \/ InsertBlocks
    \/ InsertProtocolComponent
    \/ InsertProtocolState

SpecStates == Init /\ [][NextStates]_vars

\* ------------------------------- TxWithChanges (tycho-core models/blockchain.rs)
\* HashMap<K, V> values: the functions from a subset of keys to vals
Maps(keys, vals) == UNION {[d -> vals] : d \in SUBSET keys}
\* HashMap::extend: the entries of other overwrite those of the same key
Extend(m, other) ==
    [k \in (DOMAIN m) \cup (DOMAIN other) |-> IF k \in DOMAIN other THEN other[k] ELSE m[k]]
\* HashMap without the keys of a set
Without(m, removed) == [k \in (DOMAIN m) \ removed |-> m[k]]

\* AccountUpdate::merge(self, other): an error for updates of different
\* addresses; else the slots of other overwrite and the balance of other
\* replaces one that is set
AccountUpdate_merge(self, other) ==
    IF self.address # other.address THEN [res |-> "Err", self |-> self]
    ELSE [res |-> "Ok",
          self |-> [self EXCEPT
                      !.slots = Extend(@, other.slots),
                      !.balance = IF other.balance # NULL THEN other.balance ELSE @]]

\* ProtocolComponentStateDelta::merge(self, other): an error for deltas of
\* different components; else an attribute other deletes is no longer updated,
\* one it updates is no longer deleted, then both collections are extended
\* with other's
ProtocolComponentStateDelta_merge(self, other) ==
    IF self.component_id # other.component_id THEN [res |-> "Err", self |-> self]
    ELSE [res |-> "Ok",
          self |-> [self EXCEPT
                      !.updated_attributes =
                          Extend(Without(@, other.deleted_attributes),
                                 other.updated_attributes),
                      !.deleted_attributes =
                          (@ \ DOMAIN other.updated_attributes)
                              \cup other.deleted_attributes]]

\* the entry API loops of merge: an occupied entry is merged, a vacant one is
\* inserted, and the first failure of a merge ends the loop with `?`.  merged
\* gives the result of the nested merge for the keys of both maps.  (The maps
\* of the model have one key: no entry is merged before the failing one.)
MergeEntries(mine, theirs, merged) ==
    IF \E k \in DOMAIN merged : merged[k].res = "Err" THEN [res |-> "Err", map |-> mine]
    ELSE [res |-> "Ok",
          map |-> [k \in (DOMAIN mine) \cup (DOMAIN theirs) |->
                      IF k \notin DOMAIN theirs THEN mine[k]
                      ELSE IF k \in DOMAIN mine THEN merged[k].self
                      ELSE theirs[k]]]

MergeAccountUpdates(mine, theirs) ==
    MergeEntries(mine, theirs, [k \in (DOMAIN mine) \cap (DOMAIN theirs) |->
                                   AccountUpdate_merge(mine[k], theirs[k])])

MergeStateUpdates(mine, theirs) ==
    MergeEntries(mine, theirs, [k \in (DOMAIN mine) \cap (DOMAIN theirs) |->
                                   ProtocolComponentStateDelta_merge(mine[k], theirs[k])])

\* entry(component_id).or_default(), then an insert per token
MergeBalanceChanges(mine, theirs) ==
    [k \in (DOMAIN mine) \cup (DOMAIN theirs) |->
        IF k \notin DOMAIN theirs THEN mine[k]
        ELSE Extend(IF k \in DOMAIN mine THEN mine[k] ELSE EmptyMap, theirs[k])]

\* merge after its three guards: the assignments in the order of the code, with
\* keep_balances for the variant in which a balance self already holds is kept
MergeMaps(self, other, keep_balances) ==
    LET s1 == [self EXCEPT !.tx = other.tx,
                           !.protocol_components = Extend(@, other.protocol_components)]
        au == MergeAccountUpdates(s1.account_updates, other.account_updates)
        s2 == [s1 EXCEPT !.account_updates = au.map]
        su == MergeStateUpdates(s2.state_updates, other.state_updates)
        s3 == [s2 EXCEPT !.state_updates = su.map]
    IN IF au.res = "Err" THEN [res |-> "Err", self |-> s1]
       ELSE IF su.res = "Err" THEN [res |-> "Err", self |-> s2]
       ELSE [res |-> "Ok",
             self |-> [s3 EXCEPT !.balance_changes =
                          IF keep_balances
                          THEN MergeBalanceChanges(other.balance_changes, @)
                          ELSE MergeBalanceChanges(@, other.balance_changes)]]

\* the variant in which a balance self already holds is kept
merge_keep_balances(self, other) ==
    IF \/ self.tx.block_hash # other.tx.block_hash
       \/ self.tx.hash = other.tx.hash
       \/ self.tx.index > other.tx.index
    THEN [res |-> "Err", self |-> self]
    ELSE MergeMaps(self, other, TRUE)

\* TxWithChanges::merge(&mut self, other): the result and self after the call
merge(self, other) ==
    IF \/ self.tx.block_hash # other.tx.block_hash
       \/ self.tx.hash = other.tx.hash
       \/ self.tx.index > other.tx.index
    THEN [res |-> "Err", self |-> self]
    ELSE MergeMaps(self, other, FALSE)

\* The changes of a transaction whose values are all v: one component, one
\* contract with one slot, one attribute, one token.  ids are the identities the
\* account update and the state delta under key 1 may carry.
ChangesOf(txs, v, ids) ==
    LET AccountUpdates == [address : ids, slots : Maps({1}, {v}), balance : {NULL, v}]
        Deltas == {d \in [component_id : ids,
                          updated_attributes : Maps({1}, {v}),
                          deleted_attributes : SUBSET {1}] :
                      DOMAIN d.updated_attributes \cap d.deleted_attributes = {}}
    IN [tx : txs,
        protocol_components : Maps({1}, {v}),
        account_updates : Maps({1}, AccountUpdates),
        state_updates : Maps({1}, Deltas),
        balance_changes : Maps({1}, [{1} -> {v}])]

\* a transaction and any other one: of the same or another block, with the
\* same or another hash, at any index
SelfTxs == [hash : {1}, block_hash : {1}, index : {0, 1}]
OtherTxs == [hash : {1, 2}, block_hash : {1, 2}, index : {0, 1}]

InitMerge ==
    /\ batch \in {<<a, b>> : a \in ChangesOf(SelfTxs, 1, {1}),
                              b \in ChangesOf(OtherTxs, 2, {1, 2})}
    /\ last = [op |-> "none"]
    /\ block = {} /\ transaction = {} /\ account = <<>>
    /\ account_balance = <<>> /\ contract_code = <<>> /\ contract_storage = <<>>
    /\ protocol_component = <<>> /\ protocol_state = <<>> /\ component_balance = <<>>
    /\ account_seq = 0 /\ protocol_component_seq = 0 /\ cursor = 0 /\ snap = EmptyMap
    /\ default_partition = <<>>

\* self.merge(other) for self = batch[1] and other = batch[2]
Merge ==
    /\ last.op = "none"
    /\ last' = [op |-> "merge", out |-> merge(batch[1], batch[2])]
    /\ UNCHANGED <<tables, seqs, default_partition, cursor, snap, batch>>

NextMerge == Merge

SpecMerge == InitMerge /\ [][NextMerge]_vars

\* ------------------------------------------------ claims on the primitives
BatchIds == {get_entity_id(batch[i]) : i \in DOMAIN batch}
BatchSorted == IsSorted(SortKeys(batch))
EarliestValidFrom(id) ==
    Min({batch[i].valid_from : i \in {j \in DOMAIN batch : get_entity_id(batch[j]) = id}})

\* C10: after set_versioning_attributes or set_delta_versioning_attributes on a
\* non-empty sorted batch, a row directly followed by a row of the same entity has
\* valid_to = the follower's valid_from, the last row of every entity has no
\* valid_to, and the returned map holds, for exactly the entities of the batch,
\* the valid_from of the entity's earliest row.
C10_SetVersioningAttributes ==
    (last.op \in {"set_versioning_attributes", "set_delta_versioning_attributes"}
       /\ BatchSorted)
    => LET out == last.out.objects
           m == last.out.db_updates
       IN /\ Len(out) = Len(batch)
          /\ \A i \in 1..(Len(batch) - 1) :
                get_entity_id(batch[i]) = get_entity_id(batch[i + 1])
                => out[i].valid_to = batch[i + 1].valid_from
          /\ \A i \in DOMAIN batch :
                (\A j \in DOMAIN batch : j > i => get_entity_id(batch[j]) # get_entity_id(batch[i]))
                => out[i].valid_to = NULL
          /\ DOMAIN m = BatchIds
          /\ \A id \in BatchIds : m[id] = EarliestValidFrom(id)

\* C10 witness: a sorted batch of three rows, two versions of one entity at
\* different timestamps and one row of another entity, went through
\* set_versioning_attributes
C10_Witness ==
    /\ last.op = "set_versioning_attributes"
    /\ BatchSorted
    /\ Len(batch) = 3
    /\ get_entity_id(batch[1]) # get_entity_id(batch[2])
    /\ get_entity_id(batch[2]) = get_entity_id(batch[3])
    /\ batch[2].valid_from < batch[3].valid_from
    /\ last.out.objects[2].valid_to = batch[3].valid_from

\* C9: after apply_versioning or apply_delta_versioning on a sorted batch, every
\* row that was open and belongs to an entity of the batch has valid_to = the
\* earliest valid_from of the entity's new rows, and every open row of an entity
\* that is not in the batch is as it was.
C9_ApplyVersioning ==
    (last.op \in {"apply_versioning", "apply_delta_versioning"} /\ BatchSorted)
    => /\ Len(contract_storage) = Len(last.before)
       /\ \A i \in DOMAIN last.before :
            LET old == last.before[i]
            IN old.valid_to = NULL
               => IF get_entity_id(old) \in BatchIds
                  THEN contract_storage[i] =
                         [old EXCEPT !.valid_to = EarliestValidFrom(get_entity_id(old))]
                  ELSE contract_storage[i] = old

\* C9 witness: apply_versioning ran on a sorted batch holding two entities with
\* different earliest valid_from, both with an open stored row that is now closed
C9_Witness ==
    /\ last.op = "apply_versioning"
    /\ BatchSorted
    /\ Len(last.before) = 2
    /\ last.before[1].valid_to = NULL /\ last.before[2].valid_to = NULL
    /\ get_entity_id(last.before[1]) # get_entity_id(last.before[2])
    /\ {get_entity_id(last.before[1]), get_entity_id(last.before[2])} \subseteq BatchIds
    /\ contract_storage[1].valid_to = 1 /\ contract_storage[2].valid_to = 2

\* C11: after apply_delta_versioning on a sorted batch, a new row that is not the
\* first of its entity has previous_value = the value of the preceding new row of
\* the entity; the first new row of an entity has previous_value = the value of
\* the entity's open stored row when there is one, and its constructed
\* previous_value when there is none.
C11_DeltaPreviousValues ==
    (last.op = "apply_delta_versioning" /\ BatchSorted)
    => LET out == last.new_data
           OpenRows(id) == {j \in DOMAIN last.before :
                              /\ last.before[j].valid_to = NULL
                              /\ get_entity_id(last.before[j]) = id}
       IN /\ Len(out) = Len(batch)
          /\ \A i \in DOMAIN batch :
                IF i > 1 /\ get_entity_id(batch[i - 1]) = get_entity_id(batch[i])
                THEN out[i].previous_value = get_value(batch[i - 1])
                ELSE IF OpenRows(get_entity_id(batch[i])) # {}
                THEN \E j \in OpenRows(get_entity_id(batch[i])) :
                        out[i].previous_value = get_value(last.before[j])
                ELSE out[i].previous_value = batch[i].previous_value

\* C11 witness: a sorted batch with two versions of an entity that has an open
\* stored row, and one row of an entity that has none
C11_Witness ==
    /\ last.op = "apply_delta_versioning"
    /\ BatchSorted
    /\ Len(batch) = 3
    /\ get_entity_id(batch[1]) = get_entity_id(batch[2])
    /\ get_entity_id(batch[2]) # get_entity_id(batch[3])
    /\ get_value(batch[1]) # get_value(batch[2])
    /\ \E j \in DOMAIN last.before :
          /\ last.before[j].valid_to = NULL
          /\ get_entity_id(last.before[j]) = get_entity_id(batch[1])
          /\ last.new_data[1].previous_value = get_value(last.before[j])
    /\ ~\E j \in DOMAIN last.before :
           get_entity_id(last.before[j]) = get_entity_id(batch[3])
    /\ last.new_data[2].previous_value = get_value(batch[1])
    /\ last.new_data[3].previous_value = NULL

\* the rows apply_partitioned_versioning worked on: the current rows as the
\* database returned them, then the new rows
PartitionedData ==
    [i \in DOMAIN last.db_order |-> default_partition[last.db_order[i]]] \o batch

\* the positions of PartitionedData whose row leaves the default partition: a
\* row of a deleted id, or a row followed by a later version of its id
Archived ==
    {i \in DOMAIN PartitionedData :
        \/ get_id(PartitionedData[i]) \in DOMAIN last.delete_versions
        \/ \E j \in DOMAIN PartitionedData :
              j > i /\ get_id(PartitionedData[j]) = get_id(PartitionedData[i])}

\* the archive version of such a row
ArchiveVersion(i) ==
    LET row == PartitionedData[i]
        later == {j \in DOMAIN PartitionedData :
                     j > i /\ get_id(PartitionedData[j]) = get_id(row)}
    IN IF get_id(row) \in DOMAIN last.delete_versions
       THEN [row EXCEPT !.valid_to = last.delete_versions[get_id(row)]]
       ELSE [row EXCEPT !.valid_to = PartitionedData[Min(later)].valid_from]

Reverted == last.op = "revert_contract_state" /\ last.res = "Ok"
\* two reads agree when every result one may return equals every result of the other
SameRead(A, B) == \A a \in A, b \in B : a = b

\* C1: after revert_contract_state(B) succeeds, what get_contracts (with slots) and
\* get_contract_slots return at now() is what they returned at B.ts when the
\* writes of block B had been ingested.
C1_RevertRestoresReads ==
    Reverted => /\ SameRead(get_contracts(DB, Chain, Now), snap[last.to].contracts)
                /\ SameRead(get_contract_slots(DB, Chain, Now), snap[last.to].slots)

\* two rows of one entity that are both valid at some timestamp
Overlap(r1, r2) == \E T \in 0..Now : valid_at(r1, T) /\ valid_at(r2, T)
NoOverlap(table) ==
    \A i, j \in DOMAIN table :
        (i # j /\ get_entity_id(table[i]) = get_entity_id(table[j]))
        => ~Overlap(table[i], table[j])

\* C2: for every entity key of contract_storage, protocol_state, account_balance
\* and contract_code and every timestamp T, at most one row has
\* valid_from <= T and (valid_to > T or valid_to is null); so at most one is open.
C2_VersionNonOverlap ==
    /\ NoOverlap(contract_storage) /\ NoOverlap(protocol_state)
    /\ NoOverlap(account_balance) /\ NoOverlap(contract_code)

\* the stored rows a block number above `n` brought: ids of blocks and transactions
BlocksAbove(n) == {b \in block : b.chain_id = Chain /\ b.number > n}
TxAbove(n) == {t.id : t \in {x \in transaction :
                                \E b \in BlocksAbove(n) : x.block_id = b.id}}
\* a row without the columns a revert may reset
Created(r) == [f \in (DOMAIN r) \ {"valid_to", "deleted_at", "deletion_tx"} |-> r[f]]
CreatedRows(table) == {Created(table[i]) : i \in DOMAIN table}

\* C4: a successful revert_contract_state(to) leaves no block of the chain above
\* to.number, no transaction of such a block and no account, balance, code or
\* storage row created or modified by such a transaction, and it keeps block `to`,
\* the earlier blocks, their transactions and the rows these created.
C4_RevertDeletesLaterBlocks ==
    [][(last'.op = "revert_contract_state" /\ last'.res = "Ok")
       => LET n == last'.to
              gone == TxAbove(n)
              KeptRows(table) ==
                  {Created(table[i]) : i \in {j \in DOMAIN table :
                       /\ table[j].modify_tx \notin gone
                       /\ account_of(DB, table[j].account_id).creation_tx \notin gone}}
          IN /\ block' = block \ BlocksAbove(n)
             /\ \E b \in block' : b.number = n
             /\ transaction' = {t \in transaction : t.id \notin gone}
             /\ CreatedRows(account') =
                  {Created(account[i]) : i \in {j \in DOMAIN account :
                                                   account[j].creation_tx \notin gone}}
             /\ CreatedRows(account_balance') = KeptRows(account_balance)
             /\ CreatedRows(contract_code') = KeptRows(contract_code)
             /\ CreatedRows(contract_storage') = KeptRows(contract_storage)]_vars

\* C4 witness: a revert to block 1 removed a contract created in block 2 and
\* kept a contract of block 1 with its storage
C4_Witness ==
    /\ Reverted /\ last.to = 1 /\ Tip = 1
    /\ account_seq = 2 /\ Len(account) = 1
    /\ account[1].creation_tx # NULL
    /\ \E i \in DOMAIN contract_storage : contract_storage[i].account_id = account[1].id

\* C6: a second revert_contract_state(B) right after a successful one succeeds and
\* changes nothing.
C6_RevertIdempotent ==
    Reverted => revert_contract_state(DB, Chain, last.to) = [res |-> "Ok", db |-> DB]

\* C6 witness: the first revert removed an account and re-opened a storage row
C6_Witness ==
    /\ Reverted /\ account_seq > Len(account)
    /\ \E i \in DOMAIN contract_storage :
          contract_storage[i].valid_to = NULL /\ contract_storage[i].valid_from < Tip

\* a slot map without its null entries: a null value is a removed slot
Normalize(m) == [k \in {x \in DOMAIN m : m[x] # NULL} |-> m[k]]
\* a slot map overwritten with a delta
Overwrite(m, delta) ==
    [k \in (DOMAIN m) \cup (DOMAIN delta) |-> IF k \in DOMAIN delta THEN delta[k] ELSE m[k]]
DeltaCorrect(S, V) ==
    \A base \in get_contract_slots(DB, Chain, S),
       delta \in get_slots_delta(DB, Chain, S, V),
       target \in get_contract_slots(DB, Chain, V) :
          Normalize(Overwrite(base, delta)) = Normalize(target)

\* C7: for timestamps S < V, the slots at S overwritten with
\* get_slots_delta(S, V), a null value removing the slot, are the slots at V,
\* also when a contract was deleted between S and V.
C7_ForwardDelta == \A S, V \in 0..Now : S < V => DeltaCorrect(S, V)

\* C8: for timestamps S > V, in a history written through upsert_slots, the slots
\* at S overwritten with get_slots_delta(S, V), a null value removing the slot,
\* are the slots at V.
C8_ReverseDelta == \A S, V \in 0..Now : S > V => DeltaCorrect(S, V)

\* C8 witness: a slot written in block 1 and rewritten twice in block 2: the
\* reverse delta from block 2 to block 1 restores the value of block 1
C8_Witness ==
    /\ Len(contract_storage) = 3
    /\ \A i \in 1..3 : contract_storage[i].account_id = contract_storage[1].account_id
    /\ contract_storage[1].valid_from = 1 /\ contract_storage[1].value # NULL
    /\ contract_storage[2].valid_from = 2 /\ contract_storage[2].value = NULL
    /\ contract_storage[3].valid_from = 2 /\ contract_storage[3].value # NULL
    /\ \E delta \in get_slots_delta(DB, Chain, 2, 1) :
          \E k \in DOMAIN delta : delta[k] = contract_storage[1].value

\* ------------------------------------------- claims on the protocol gateway
\* the position of a stored version among the versions of its entity:
\* valid_from, then ordinal / transaction index
VersionOrder(r) ==
    <<r.valid_from, IF "ordinal" \in DOMAIN r THEN r.ordinal ELSE TxIndex(DB, r)[1]>>

\* V2 is the version that follows V1
Successive(table, i, j) ==
    /\ i # j
    /\ get_entity_id(table[i]) = get_entity_id(table[j])
    /\ LexLess(VersionOrder(table[i]), VersionOrder(table[j]))
    /\ ~\E k \in DOMAIN table :
          /\ get_entity_id(table[k]) = get_entity_id(table[i])
          /\ LexLess(VersionOrder(table[i]), VersionOrder(table[k]))
          /\ LexLess(VersionOrder(table[k]), VersionOrder(table[j]))

DeltaCoherent(table) ==
    \A i, j \in DOMAIN table :
        Successive(table, i, j) => table[j].previous_value = get_value(table[i])

\* C3 (I2): after any sequence of upsert_slots and update_protocol_states calls,
\* for every two successive stored versions V1, V2 of a delta-versioned entity
\* key, V2.previous_value = V1.value
C3_DeltaCoherence ==
    DeltaCoherent(contract_storage) /\ DeltaCoherent(protocol_state)

\* C5: after a successful revert_contract_state(to) no row of a versioned table
\* has a non-null valid_to greater than to.ts
NoneClosedAfter(table, ts) ==
    \A i \in DOMAIN table : table[i].valid_to = NULL \/ table[i].valid_to <= ts

C5_RevertReopensRows ==
    Reverted =>
        LET to == CHOOSE b \in block_by_number(DB, Chain, last.to) : TRUE
        IN /\ NoneClosedAfter(contract_storage, to.ts)
           /\ NoneClosedAfter(account_balance, to.ts)
           /\ NoneClosedAfter(contract_code, to.ts)
           /\ NoneClosedAfter(protocol_state, to.ts)
           /\ NoneClosedAfter(component_balance, to.ts)

\* ------------------------------------------------- claims on delete_contract
\* C13: on an account already deleted by transaction t, delete_contract with t
\* returns Ok and with a stored transaction other than t returns Unexpected; both
\* change nothing.
C13_DeleteTwice ==
    \A i \in DOMAIN account, t \in transaction :
        account[i].deletion_tx # NULL
        => delete_contract(DB, Chain, account[i].address, t.id)
           = [res |-> IF t.id = account[i].deletion_tx THEN "Ok" ELSE "Unexpected",
              db |-> DB]

\* C13 witness: a deleted account with closed rows, and a stored transaction
\* other than the one that deleted it
C13_Witness ==
    \E i \in DOMAIN account, t \in transaction :
        /\ account[i].deletion_tx # NULL /\ t.id # account[i].deletion_tx
        /\ t.block_id = Tip /\ t.id > account[i].deletion_tx
        /\ \E k \in DOMAIN contract_storage :
              /\ contract_storage[k].account_id = account[i].id
              /\ contract_storage[k].valid_to = account[i].deleted_at

\* the rows of a table after a delete of account `id` at ts: the live rows of the
\* account are closed at ts, the rows of other accounts are as they were
ClosedBy(before, after, id, ts) ==
    /\ Len(after) = Len(before)
    /\ \A k \in DOMAIN before :
          IF before[k].account_id # id THEN after[k] = before[k]
          ELSE before[k].valid_to = NULL => after[k] = [before[k] EXCEPT !.valid_to = ts]

\* C14: a successful first delete_contract(c, t) sets the account's deleted_at to
\* the ts of t's block and its deletion_tx to t's id, sets valid_to to that ts on
\* every live balance, code and storage row of the account and leaves the rows of
\* other accounts unchanged.
C14_DeleteClosesLiveRows ==
    \A i \in DOMAIN account, t \in transaction :
        account[i].deletion_tx = NULL
        => LET r == delete_contract(DB, Chain, account[i].address, t.id)
               ts == block_ts(DB, t)
               id == account[i].id
           IN /\ r.res = "Ok"
              /\ r.db.account = [account EXCEPT ![i] = [@ EXCEPT !.deleted_at = ts,
                                                                !.deletion_tx = t.id]]
              /\ ClosedBy(account_balance, r.db.account_balance, id, ts)
              /\ ClosedBy(contract_code, r.db.contract_code, id, ts)
              /\ ClosedBy(contract_storage, r.db.contract_storage, id, ts)

\* C14 witness: a live account with open balance, code and storage rows beside
\* another account with an open storage row, and a transaction of a later block
C14_Witness ==
    \E i, j \in DOMAIN account, t \in transaction :
        /\ i # j /\ account[i].deletion_tx = NULL
        /\ block_ts(DB, t) > account[i].created_at
        /\ \E k \in DOMAIN account_balance :
              account_balance[k].account_id = account[i].id /\ account_balance[k].valid_to = NULL
        /\ \E k \in DOMAIN contract_code :
              contract_code[k].account_id = account[i].id /\ contract_code[k].valid_to = NULL
        /\ \E k, l \in DOMAIN contract_storage :
              /\ contract_storage[k].account_id = account[i].id
              /\ contract_storage[k].valid_to = NULL
              /\ contract_storage[l].account_id = account[j].id
              /\ contract_storage[l].valid_to = NULL

\* ------------------------------------------- claims on add_contract, get_contract
\* the hashes a caller may name: those of the transactions of every block, and 0,
\* the hash of no transaction
TxHashes == 0..TxId(MaxBlock, TxPerBlock)
Stored(hash) == \E t \in transaction : t.id = hash

\* the accounts a caller may add on chain Chain: the creation transaction is
\* absent or one of the two modifying transactions
NewAccounts ==
    {new \in [chain_id : {Chain}, address : Addresses, title : {7},
              creation_tx : TxHashes \cup {NULL}, balance_modify_tx : TxHashes,
              code_modify_tx : TxHashes, balance : {300}, code : {5},
              code_hash : {keccak256(5)}] :
        new.creation_tx \in {NULL, new.balance_modify_tx, new.code_modify_tx}}

Referenced(new) ==
    {new.balance_modify_tx, new.code_modify_tx} \cup
        (IF new.creation_tx = NULL THEN {} ELSE {new.creation_tx})

\* the account get_contract is to return for `new`
AccountOf(new) ==
    [chain |-> new.chain_id, address |-> new.address, title |-> new.title,
     slots |-> EmptyMap, balance |-> new.balance, code |-> new.code,
     code_hash |-> new.code_hash, balance_modify_tx |-> new.balance_modify_tx,
     code_modify_tx |-> new.code_modify_tx, creation_tx |-> new.creation_tx]

\* C15: after add_contract(A) has succeeded with every referenced transaction
\* stored, get_contract of A's chain and address with no version returns an
\* account equal to A with an empty slot set: the same chain, address, title,
\* balance, code, code hash, balance_modify_tx, code_modify_tx and creation_tx.
C15_AddThenGet ==
    \A new \in NewAccounts :
        LET r == add_contract(DB, new)
        IN (\A h \in Referenced(new) : Stored(h)) /\ r.res = "Ok" =>
              get_contract(r.db, new.chain_id, new.address, Now) =
                  {[res |-> "Ok", contract |-> AccountOf(new)]}

\* an account with a creation transaction and two different modifying
\* transactions is added to a database that holds another account
C15_Witness ==
    \E new \in NewAccounts :
        /\ \A h \in Referenced(new) : Stored(h)
        /\ new.creation_tx # NULL /\ new.balance_modify_tx # new.code_modify_tx
        /\ Len(account) >= 1
        /\ add_contract(DB, new).res = "Ok"
        /\ \E g \in get_contract(add_contract(DB, new).db, new.chain_id, new.address, Now) :
               g.res = "Ok" /\ g.contract.balance = 300

\* C16: add_contract of an account of a new address returns NoRelatedEntity
\* whenever the creation, the balance-modify or the code-modify transaction hash
\* is not stored, and has then inserted no account row, no balance row and no
\* code row.
C16_AddContractAllOrNothing ==
    \A new \in NewAccounts :
        LET r == add_contract(DB, new)
        IN account_by_id(DB, new.chain_id, new.address) = {}
           /\ (\E h \in Referenced(new) : ~Stored(h)) =>
              /\ r.res = "NoRelatedEntity"
              /\ r.db.account = account
              /\ r.db.account_balance = account_balance
              /\ r.db.contract_code = contract_code

\* the rows of a table of account id that are valid at T, and those of them no
\* other one follows in the order of (valid_from, index of the transaction)
VersionsAt(table, id, T) ==
    {i \in DOMAIN table : table[i].account_id = id /\ valid_at(table[i], T)}
IndexOfTx(r) == (CHOOSE t \in transaction : t.id = r.modify_tx).index
Follows(q, r) ==
    \/ q.valid_from > r.valid_from
    \/ q.valid_from = r.valid_from /\ IndexOfTx(q) > IndexOfTx(r)
Greatest(table, rows) == {i \in rows : \A j \in rows : ~Follows(table[j], table[i])}

\* C17: get_contract at a version of timestamp T returns, for the balance and for
\* the code, the row with the greatest (valid_from, transaction index) among the
\* rows of the account with valid_from <= T and valid_to > T or null, and
\* reports the hash of that row's transaction as balance_modify_tx and
\* code_modify_tx.
C17_GetContractLatestVersion ==
    \A i \in DOMAIN account, T \in 0..Now :
        LET a == account[i]
            balances == VersionsAt(account_balance, a.id, T)
            codes == VersionsAt(contract_code, a.id, T)
        IN balances # {} /\ codes # {} =>
             \A g \in get_contract(DB, a.chain_id, a.address, T) :
                /\ g.res = "Ok"
                /\ \E b \in Greatest(account_balance, balances) :
                      /\ g.contract.balance = from_big_endian(account_balance[b].balance)
                      /\ g.contract.balance_modify_tx = account_balance[b].modify_tx
                /\ \E c \in Greatest(contract_code, codes) :
                      /\ g.contract.code = contract_code[c].code
                      /\ g.contract.code_modify_tx = contract_code[c].modify_tx

\* an account has, valid at the same T, a balance of a later block written by a
\* transaction of a lower index than the one of its balance of an earlier block,
\* and get_contract reports the later one
C17_Witness ==
    \E i \in DOMAIN account, T \in 0..Now :
        /\ \E b1, b2 \in VersionsAt(account_balance, account[i].id, T) :
              /\ account_balance[b1].valid_from < account_balance[b2].valid_from
              /\ IndexOfTx(account_balance[b1]) > IndexOfTx(account_balance[b2])
              /\ account_balance[b1].balance # account_balance[b2].balance
              /\ \E g \in get_contract(DB, account[i].chain_id, account[i].address, T) :
                    /\ g.res = "Ok"
                    /\ g.contract.balance_modify_tx = account_balance[b2].modify_tx
        /\ Cardinality(VersionsAt(contract_code, account[i].id, T)) >= 2

\* C18: get_contract of an address that has no account row on the chain returns
\* NotFound("Account", hex of the address), at every version; it only reads.
C18_GetMissingAccount ==
    \A chain_id \in Chains, address \in Addresses, T \in 0..Now :
        (\A i \in DOMAIN account :
            ~(account[i].chain_id = chain_id /\ account[i].address = address)) =>
           get_contract(DB, chain_id, address, T) =
               {[res |-> "NotFound", entity |-> "Account",
                 id |-> <<address \div 16, address % 16>>]}

\* the address has an account with a balance and a code on the other chain
\* alone, and get_contract on chain Chain does not find it
C18_Witness ==
    \E i \in DOMAIN account :
        /\ account[i].chain_id # Chain
        /\ \A j \in DOMAIN account :
              account[j].address = account[i].address => account[j].chain_id # Chain
        /\ \E g \in get_contract(DB, account[i].chain_id, account[i].address, Now) :
              g.res = "Ok"
        /\ \E g \in get_contract(DB, Chain, account[i].address, Now) :
              g.res = "NotFound"

\* C19: for every account deleted by delete_contract, get_contract at a version
\* whose timestamp is at or after the account's deleted_at returns NotFound for
\* the account.
C19_GetDeletedContract ==
    \A i \in DOMAIN account, T \in 0..Now :
        account[i].deletion_tx # NULL /\ T >= account[i].deleted_at =>
           get_contract(DB, account[i].chain_id, account[i].address, T) =
               {[res |-> "NotFound", entity |-> "Account",
                 id |-> hex_encode(account[i].address)]}

\* ----------------------------------------------------- claims on get_contracts
\* C20: get_contracts(chain, no address filter, version of timestamp T) returns
\* exactly the accounts of the requested chain with created_at <= T and deleted_at
\* null or > T, in ascending id, each with a balance, a code and the slots of its
\* own account id that are valid at T.
C20_GetContractsOfChain ==
    \A T \in 0..Now :
        LET Expected(a) == /\ a.chain_id = Chain
                           /\ a.created_at <= T
                           /\ (a.deleted_at = NULL \/ a.deleted_at > T)
            expected == SelectSeq(account, Expected)
        IN \A g \in get_contracts(DB, Chain, T) :
              g.res = "Ok" =>
                 /\ Len(g.contracts) = Len(expected)
                 /\ \A k \in DOMAIN expected :
                       /\ g.contracts[k].address = expected[k].address
                       /\ \E b \in VersionsAt(account_balance, expected[k].id, T) :
                             g.contracts[k].balance =
                                 from_big_endian(account_balance[b].balance)
                       /\ \E c \in VersionsAt(contract_code, expected[k].id, T) :
                             g.contracts[k].code = contract_code[c].code
                       /\ \A sl \in DOMAIN g.contracts[k].slots :
                             \E x \in VersionsAt(contract_storage, expected[k].id, T) :
                                contract_storage[x].slot = sl

\* ------------------------------ claims on get_contract_slots, upsert_slots
\* the storage rows of an address of chain Chain and a slot that are valid at T
SlotVersionsAt(address, sl, T) ==
    {i \in DOMAIN contract_storage :
        /\ contract_storage[i].slot = sl
        /\ valid_at(contract_storage[i], T)
        /\ \E j \in DOMAIN account : /\ account[j].id = contract_storage[i].account_id
                                     /\ account[j].address = address
                                     /\ account[j].chain_id = Chain}
\* row q is a later write than row r
LaterWrite(q, r) ==
    \/ q.valid_from > r.valid_from
    \/ q.valid_from = r.valid_from /\ q.ordinal > r.ordinal
LastWrites(rows) ==
    {i \in rows : \A j \in rows : ~LaterWrite(contract_storage[j], contract_storage[i])}

\* C21: get_contract_slots at a version of timestamp T returns, for each
\* (account, slot) of the chain, exactly the value of the row with the greatest
\* (valid_from, ordinal) among the rows with valid_from <= T and valid_to > T or
\* null; a write of a block with timestamp > T is not visible, and an (account,
\* slot) with no such row is absent from the result.
C21_GetContractSlots ==
    \A T \in 0..Now : \A m \in get_contract_slots(DB, Chain, T) :
        /\ DOMAIN m = {k \in Addresses \X Slots : SlotVersionsAt(k[1], k[2], T) # {}}
        /\ \A k \in DOMAIN m :
              \E i \in LastWrites(SlotVersionsAt(k[1], k[2], T)) :
                 /\ m[k] = contract_storage[i].value
                 /\ contract_storage[i].valid_from <= T

\* a slot has two rows of different values valid at T and a row written by a
\* later block, and the later of the two valid rows is the one returned
C21_Witness ==
    \E T \in 0..Now, a \in Addresses, sl \in Slots :
        /\ \E i, j \in SlotVersionsAt(a, sl, T) :
              /\ LaterWrite(contract_storage[j], contract_storage[i])
              /\ contract_storage[i].value # contract_storage[j].value
              /\ \A m \in get_contract_slots(DB, Chain, T) :
                    <<a, sl>> \in DOMAIN m /\ m[<<a, sl>>] = contract_storage[j].value
        /\ \E x \in DOMAIN contract_storage :
              /\ contract_storage[x].slot = sl
              /\ contract_storage[x].valid_from > T

\* the change sets a caller may send: up to MaxChanges changes, of any hash and
\* any address
AnyChangeSets ==
    SeqsUpTo([tx : TxHashes, address : Addresses, slot : Slots,
              value : Values \cup {NULL}], MaxChanges) \ {<<>>}
Unresolved(e) ==
    \/ ~Stored(e.tx)
    \/ \A i \in DOMAIN account : account[i].address # e.address
OpenRows == {i \in DOMAIN contract_storage : contract_storage[i].valid_to = NULL}

\* C22: upsert_slots returns NoRelatedEntity when a transaction hash of the change
\* set is not stored or an address of it has no account, and has then inserted no
\* storage row of the call.
C22_UpsertSlotsRejects ==
    \A slots \in AnyChangeSets, db_order \in Orders(OpenRows) :
        (\E i \in DOMAIN slots : Unresolved(slots[i])) =>
           upsert_slots(DB, slots, db_order) = [res |-> "NoRelatedEntity", db |-> DB]

\* the first change of a set names a stored transaction and an account with
\* storage, the second one a transaction that is not stored
C22_Witness ==
    \E slots \in AnyChangeSets :
        /\ Len(slots) = 2
        /\ ~Unresolved(slots[1]) /\ ~Stored(slots[2].tx)
        /\ contract_storage # <<>>
        /\ \E db_order \in Orders(OpenRows) :
              upsert_slots(DB, slots, db_order).res = "NoRelatedEntity"

\* ------------------------------------------------- claims on get_slots_delta
\* the storage rows of an address of chain Chain and a slot written in ]lo, hi]
SlotWrites(address, sl, lo, hi) ==
    {i \in DOMAIN contract_storage :
        /\ contract_storage[i].slot = sl
        /\ contract_storage[i].valid_from > lo /\ contract_storage[i].valid_from <= hi
        /\ \E j \in DOMAIN account : /\ account[j].id = contract_storage[i].account_id
                                     /\ account[j].address = address
                                     /\ account[j].chain_id = Chain}
FirstWrites(rows) ==
    {i \in rows : \A j \in rows : ~LaterWrite(contract_storage[i], contract_storage[j])}

\* C23: get_slots_delta with a start timestamp S <= the target timestamp V
\* returns, for each (account, slot) of the chain with a row with
\* S < valid_from <= V, the value of the row with the greatest (valid_from,
\* ordinal) of that window, and no entry for any other (account, slot).
C23_SlotsDeltaForward ==
    \A S, V \in 0..Now :
        S <= V =>
           \A delta \in get_slots_delta(DB, Chain, S, V) :
              /\ DOMAIN delta = {k \in Addresses \X Slots : SlotWrites(k[1], k[2], S, V) # {}}
              /\ \A k \in DOMAIN delta :
                    \E i \in LastWrites(SlotWrites(k[1], k[2], S, V)) :
                       delta[k] = contract_storage[i].value

\* a slot was written in two blocks of a window with different values and
\* another account was not written: the forward delta is the later value alone
C23_Witness ==
    \E S, V \in 0..Now, a \in Addresses, sl \in Slots :
        /\ S < V
        /\ \E i, j \in SlotWrites(a, sl, S, V) :
              /\ contract_storage[i].valid_from < contract_storage[j].valid_from
              /\ contract_storage[i].value # contract_storage[j].value
              /\ \A delta \in get_slots_delta(DB, Chain, S, V) :
                    /\ <<a, sl>> \in DOMAIN delta
                    /\ delta[<<a, sl>>] = contract_storage[j].value
                    /\ \E b \in Addresses : <<b, sl>> \notin DOMAIN delta

\* C24: get_slots_delta with a start timestamp S > the target timestamp V
\* returns, for each (account, slot) of the chain with a row with
\* V < valid_from <= S, the previous_value of the row with the smallest
\* (valid_from, ordinal) of that window, null when the slot did not exist at V,
\* and no entry for any other (account, slot).
C24_SlotsDeltaBackward ==
    \A S, V \in 0..Now :
        S > V =>
           \A delta \in get_slots_delta(DB, Chain, S, V) :
              /\ DOMAIN delta = {k \in Addresses \X Slots : SlotWrites(k[1], k[2], V, S) # {}}
              /\ \A k \in DOMAIN delta :
                    /\ \E i \in FirstWrites(SlotWrites(k[1], k[2], V, S)) :
                          delta[k] = contract_storage[i].previous_value
                    /\ SlotVersionsAt(k[1], k[2], V) = {} => delta[k] = NULL

\* a slot that did not exist at V was written twice up to S, and the backward
\* delta to V is the null previous value of its first write; the backward delta
\* from S to the block of the first write is the value written then
C24_Witness ==
    \E S, V \in 0..Now, a \in Addresses, sl \in Slots :
        /\ S > V
        /\ SlotVersionsAt(a, sl, V) = {}
        /\ \E i, j \in SlotWrites(a, sl, V, S) :
              /\ LaterWrite(contract_storage[j], contract_storage[i])
              /\ contract_storage[i].previous_value = NULL
              /\ contract_storage[j].previous_value # NULL
              /\ contract_storage[i].valid_from < S
              /\ \A delta \in get_slots_delta(DB, Chain, S, V) :
                    <<a, sl>> \in DOMAIN delta /\ delta[<<a, sl>>] = NULL
              /\ \A delta \in get_slots_delta(DB, Chain, S, contract_storage[i].valid_from) :
                    /\ <<a, sl>> \in DOMAIN delta
                    /\ delta[<<a, sl>>] = contract_storage[i].value

\* --------------------------------------- claims on the reads of protocol states
\* the protocol-state rows of a component and an attribute that are valid at T
StateVersionsAt(component_id, attribute_name, T) ==
    {i \in DOMAIN protocol_state :
        /\ protocol_state[i].protocol_component_id = component_id
        /\ protocol_state[i].attribute_name = attribute_name
        /\ valid_at(protocol_state[i], T)}
\* the rows that ended in ]V, S], were valid at V and have no version valid at S
Reinstated(S, V) ==
    {i \in DOMAIN protocol_state :
        /\ protocol_state[i].valid_to # NULL
        /\ protocol_state[i].valid_to > V /\ protocol_state[i].valid_to <= S
        /\ protocol_state[i].valid_from <= V
        /\ StateVersionsAt(protocol_state[i].protocol_component_id,
                           protocol_state[i].attribute_name, S) = {}}
\* the (component, attribute) pairs updated in ]V, S]
Updated(S, V) ==
    {<<protocol_state[i].protocol_component_id, protocol_state[i].attribute_name>> :
        i \in {j \in DOMAIN protocol_state :
                  protocol_state[j].valid_from > V /\ protocol_state[j].valid_from <= S}}
ValueEntry ==
    [i \in DOMAIN protocol_state |->
        <<external_id_of(DB, protocol_state[i]), protocol_state[i].attribute_name,
          protocol_state[i].attribute_value>>]

\* C25: reverse_delta_by_chain(start S, target V) with S > V returns, besides
\* one reverted update per (component, attribute) updated in ]V, S], the
\* attribute_value of every protocol-state row with V < valid_to <= S and
\* valid_from <= V whose (component, attribute) has no row valid at S; a
\* (component, attribute) that has a valid row at S contributes no reinstated
\* entry.
C25_ReverseDeltaReinstates ==
    \A S, V \in 0..Now :
        S > V =>
           \A b \in reverse_delta_by_chain(DB, Chain, S, V) :
              LET expected == BagOfRows(Reinstated(S, V), ValueEntry)
              IN /\ expected \sqsubseteq b
                 /\ BagCardinality(b) =
                       Cardinality(Reinstated(S, V)) + Cardinality(Updated(S, V))
                 /\ \A e \in BagToSet(b (-) expected) :
                       \E i \in DOMAIN protocol_state :
                          /\ external_id_of(DB, protocol_state[i]) = e[1]
                          /\ protocol_state[i].attribute_name = e[2]
                          /\ protocol_state[i].previous_value = e[3]
                          /\ protocol_state[i].valid_from > V
                          /\ protocol_state[i].valid_from <= S

\* one attribute ended between V and S and has no version at S, another one
\* ended between V and S and has a version at S, which makes it an update
C25_Witness ==
    \E S, V \in 0..Now :
        /\ S > V
        /\ Reinstated(S, V) # {}
        /\ \E i \in DOMAIN protocol_state :
              /\ i \notin Reinstated(S, V)
              /\ protocol_state[i].valid_to # NULL
              /\ protocol_state[i].valid_to > V /\ protocol_state[i].valid_to <= S
              /\ protocol_state[i].valid_from <= V
        /\ Updated(S, V) # {}
        /\ \A b \in reverse_delta_by_chain(DB, Chain, S, V) : BagCardinality(b) = 2

\* the rows get_protocol_states fetches for external ids and a version (NULL: the
\* open rows)
Fetched(ids, T) ==
    {i \in DOMAIN protocol_state :
        /\ external_id_of(DB, protocol_state[i]) \in ids
        /\ IF T = NULL THEN protocol_state[i].valid_to = NULL
           ELSE valid_at(protocol_state[i], T)}
\* the transaction of row i is at least as recent as the one of row j
NotOlder(i, j) ==
    LET ti == CHOOSE t \in transaction : t.id = protocol_state[i].modify_tx
        tj == CHOOSE t \in transaction : t.id = protocol_state[j].modify_tx
    IN ti.block_id > tj.block_id \/ (ti.block_id = tj.block_id /\ ti.index >= tj.index)

\* C26: get_protocol_states / _decode_protocol_states turns the fetched rows,
\* ordered by (component id, block, transaction index), into exactly one
\* ProtocolState per distinct component id, built from all the fetched rows of
\* that component and from no row of another one, with the transaction hash of
\* the last, most recent, row of the group as its modify_tx.
C26_DecodeProtocolStates ==
    \A ids \in SUBSET Components, T \in {NULL} \cup 0..Now :
        \A result \in get_protocol_states(DB, Chain, T, ids) :
           LET mine(c) == {i \in Fetched(ids, T) : external_id_of(DB, protocol_state[i]) = c}
           IN /\ {result[n].component_id : n \in DOMAIN result} =
                    {external_id_of(DB, protocol_state[i]) : i \in Fetched(ids, T)}
              /\ \A m, n \in DOMAIN result :
                    result[m].component_id = result[n].component_id => m = n
              /\ \A n \in DOMAIN result :
                    LET c == result[n].component_id
                        rows == [i \in DOMAIN protocol_state |-> protocol_state[i]]
                    IN /\ BagOfRows(DOMAIN result[n].states, result[n].states) =
                             BagOfRows(mine(c), rows)
                       /\ \E i \in mine(c) :
                             /\ protocol_state[i].modify_tx = result[n].modify_tx
                             /\ \A j \in mine(c) : NotOlder(i, j)

\* the rows of two components are stored interleaved, one component has rows of
\* two transactions, and the states of both are read
C26_Witness ==
    /\ Len(protocol_state) = 3
    /\ protocol_state[1].protocol_component_id = protocol_state[3].protocol_component_id
    /\ protocol_state[1].protocol_component_id # protocol_state[2].protocol_component_id
    /\ ~NotOlder(3, 1)
    /\ \A i \in 1..3 : protocol_state[i].valid_to = NULL
    /\ \A result \in get_protocol_states(DB, Chain, NULL, Components) :
          /\ Len(result) = 2
          /\ \E n \in DOMAIN result : /\ Len(result[n].states) = 2
                                       /\ result[n].modify_tx = protocol_state[1].modify_tx

\* the batches of deltas of stored components written by stored transactions,
\* of any block, at most one delta per transaction, component and attribute
StoredDeltas ==
    LET Deltas == [component_id : {protocol_component[i].external_id :
                                       i \in DOMAIN protocol_component},
                   attribute_name : Attributes, attribute_value : Values,
                   modify_tx : {t.id : t \in transaction}]
    IN {s \in SeqsUpTo(Deltas, MaxChanges) :
          /\ s # <<>>
          /\ \A i, j \in DOMAIN s :
                i < j => <<s[i].modify_tx, s[i].component_id, s[i].attribute_name>> #
                         <<s[j].modify_tx, s[j].component_id, s[j].attribute_name>>}

\* the rows a call added to protocol_state
InsertedStates(r) == SubSeq(r.db.protocol_state, Len(protocol_state) + 1,
                            Len(r.db.protocol_state))

\* (block timestamp, transaction index) of the transaction that wrote a row
WrittenAt(row) ==
    <<row.valid_from, (CHOOSE t \in transaction : t.id = row.modify_tx).index>>

\* the rows of a batch are chained in (block timestamp, transaction index)
\* order per component and attribute
ChainedInTxOrder(rows) ==
    \A i \in DOMAIN rows :
        LET later == {j \in DOMAIN rows :
                        /\ rows[j].protocol_component_id = rows[i].protocol_component_id
                        /\ rows[j].attribute_name = rows[i].attribute_name
                        /\ LexLess(WrittenAt(rows[i]), WrittenAt(rows[j]))}
        IN IF later = {} THEN rows[i].valid_to = NULL
           ELSE \E j \in later :
                   /\ \A k \in later : ~LexLess(WrittenAt(rows[k]), WrittenAt(rows[j]))
                   /\ rows[i].valid_to = rows[j].valid_from

\* C27: the rows update_protocol_states inserts for a batch are chained per
\* (component, attribute) in (block timestamp, transaction index) order: every
\* row but the latest ends where the next one starts and only the latest has
\* valid_to = null, also when the transactions of the batch are in several
\* blocks.
C27_BatchChainedInTxOrder ==
    \A new \in StoredDeltas :
        LET r == update_protocol_states(DB, Chain, new)
        IN r.res = "Ok" => ChainedInTxOrder(InsertedStates(r))

\* the batches in which some delta names a transaction or a component that is
\* not stored; 0 is the hash of no transaction and the external id of no
\* component
UnstoredDeltas ==
    LET Deltas == [component_id : {protocol_component[i].external_id :
                                       i \in DOMAIN protocol_component} \cup {0},
                   attribute_name : Attributes, attribute_value : Values,
                   modify_tx : {t.id : t \in transaction} \cup {0}]
    IN {s \in SeqsUpTo(Deltas, MaxChanges) :
          \E i \in DOMAIN s : \/ tx_by_hash(DB, s[i].modify_tx) = {}
                              \/ ids_by_external_ids(DB, Chain, s[i].component_id) = {}}

\* C28: update_protocol_states with a delta whose modify_tx or component id is
\* not stored returns an error result to its caller, without aborting the task,
\* and inserts no protocol_state row.
C28_UnknownReferenceIsAnError ==
    \A new \in UnstoredDeltas :
        LET r == update_protocol_states(DB, Chain, new)
        IN /\ r.res \notin {"Ok", "panic"}
           /\ r.db.protocol_state = protocol_state

\* the two transactions may be merged as the claim has it
Mergeable(mine, theirs) ==
    /\ mine.block_hash = theirs.block_hash
    /\ mine.hash # theirs.hash
    /\ mine.index < theirs.index

\* C29: merge returns an error and leaves self as it was unless the two have the
\* same block_hash, different tx.hash and self.tx.index strictly lower than
\* other.tx.index.
C29_MergeRejects ==
    last.op = "merge" /\ ~Mergeable(batch[1].tx, batch[2].tx)
        => last.out.res = "Err" /\ last.out.self = batch[1]

\* every key of a map that the other map lacks keeps its value
KeptWhereAlone(mine, theirs, merged) ==
    \A k \in (DOMAIN mine) \ DOMAIN theirs : k \in DOMAIN merged /\ merged[k] = mine[k]

\* every key of the other map holds the other's value
TakenFrom(theirs, merged) ==
    \A k \in DOMAIN theirs : k \in DOMAIN merged /\ merged[k] = theirs[k]

\* two values of one key merged with other taking precedence
AccountMergedPerKey(mine, theirs, merged) ==
    /\ KeptWhereAlone(mine.slots, theirs.slots, merged.slots)
    /\ TakenFrom(theirs.slots, merged.slots)
    /\ merged.balance = IF theirs.balance # NULL THEN theirs.balance ELSE mine.balance

DeltaMergedPerKey(mine, theirs, merged) ==
    /\ TakenFrom(theirs.updated_attributes, merged.updated_attributes)
    /\ theirs.deleted_attributes \subseteq merged.deleted_attributes
    /\ \A a \in (DOMAIN mine.updated_attributes) \
                  ((DOMAIN theirs.updated_attributes) \cup theirs.deleted_attributes) :
          /\ a \in DOMAIN merged.updated_attributes
          /\ merged.updated_attributes[a] = mine.updated_attributes[a]
    /\ \A a \in mine.deleted_attributes \ DOMAIN theirs.updated_attributes :
          a \in merged.deleted_attributes

\* C30: after a successful merge self.tx is other.tx; a key only self has keeps
\* its value; every protocol component and every (component, token) balance of
\* other is held with other's value; account updates and state deltas of both
\* are merged per key with other taking precedence, and those of other alone
\* are copied.
C30_MergeRightBiased ==
    last.op = "merge" /\ last.out.res = "Ok" =>
        LET mine == batch[1]
            theirs == batch[2]
            merged == last.out.self
        IN /\ merged.tx = theirs.tx
           /\ KeptWhereAlone(mine.protocol_components, theirs.protocol_components,
                             merged.protocol_components)
           /\ KeptWhereAlone(mine.account_updates, theirs.account_updates,
                             merged.account_updates)
           /\ KeptWhereAlone(mine.state_updates, theirs.state_updates, merged.state_updates)
           /\ KeptWhereAlone(mine.balance_changes, theirs.balance_changes,
                             merged.balance_changes)
           /\ TakenFrom(theirs.protocol_components, merged.protocol_components)
           /\ \A c \in DOMAIN theirs.balance_changes :
                 /\ c \in DOMAIN merged.balance_changes
                 /\ TakenFrom(theirs.balance_changes[c], merged.balance_changes[c])
                 /\ c \in DOMAIN mine.balance_changes =>
                       KeptWhereAlone(mine.balance_changes[c], theirs.balance_changes[c],
                                      merged.balance_changes[c])
           /\ \A k \in DOMAIN theirs.account_updates :
                 /\ k \in DOMAIN merged.account_updates
                 /\ IF k \in DOMAIN mine.account_updates
                    THEN AccountMergedPerKey(mine.account_updates[k],
                                             theirs.account_updates[k],
                                             merged.account_updates[k])
                    ELSE merged.account_updates[k] = theirs.account_updates[k]
           /\ \A k \in DOMAIN theirs.state_updates :
                 /\ k \in DOMAIN merged.state_updates
                 /\ IF k \in DOMAIN mine.state_updates
                    THEN DeltaMergedPerKey(mine.state_updates[k], theirs.state_updates[k],
                                           merged.state_updates[k])
                    ELSE merged.state_updates[k] = theirs.state_updates[k]

\* a successful merge in which both sides hold the component, the contract,
\* the state delta and the balance
C30_Witness ==
    /\ last.op = "merge" /\ last.out.res = "Ok"
    /\ \A m \in {batch[1], batch[2]} :
          /\ m.protocol_components # EmptyMap /\ m.balance_changes # EmptyMap
          /\ m.account_updates # EmptyMap /\ m.state_updates # EmptyMap
    /\ batch[1].account_updates[1].balance # NULL
    /\ batch[2].account_updates[1].balance # NULL
    /\ batch[1].state_updates[1].updated_attributes # EmptyMap
    /\ batch[2].state_updates[1].updated_attributes # EmptyMap

\* C31: after any sequence of add_contract, delete_contract and
\* revert_contract_state every account has deleted_at and deletion_tx either
\* both set or both null.
C31_DeletionConsistent ==
    \A i \in DOMAIN account :
        (account[i].deleted_at = NULL) <=> (account[i].deletion_tx = NULL)

\* the accounts that are not of a chain and, of a versioned table, their rows
AccountsOffChain(accounts, chain_id) ==
    SelectSeq(accounts, LAMBDA a : a.chain_id # chain_id)
RowsOffChain(table, accounts, chain_id) ==
    SelectSeq(table, LAMBDA r : \E i \in DOMAIN accounts :
                                   /\ accounts[i].id = r.account_id
                                   /\ accounts[i].chain_id # chain_id)

\* C35: revert_contract_state(to) changes only data of to's chain: the blocks,
\* the transactions, the accounts (their deleted_at) and the versioned rows
\* (their valid_to) of every other chain are the same before and after the call.
C35_RevertLeavesOtherChains ==
    [][last'.op = "revert_contract_state" =>
          LET c == last'.chain_id
              Off(blocks) == {b \in blocks : b.chain_id # c}
              OffTx(txs, blocks) == {t \in txs : \E b \in Off(blocks) : b.id = t.block_id}
          IN /\ Off(block') = Off(block)
             /\ OffTx(transaction', block') = OffTx(transaction, block)
             /\ AccountsOffChain(account', c) = AccountsOffChain(account, c)
             /\ RowsOffChain(account_balance', account', c) =
                   RowsOffChain(account_balance, account, c)
             /\ RowsOffChain(contract_code', account', c) =
                   RowsOffChain(contract_code, account, c)
             /\ RowsOffChain(contract_storage', account', c) =
                   RowsOffChain(contract_storage, account, c)]_vars

\* C32: when two writers insert new versions of one entity key through
\* apply_versioning (read the open row, update its valid_to, insert), serialised
\* by the caller or each in a transaction of its own at REPEATABLE READ, no
\* interleaving of their round trips leaves two open rows of a key once both
\* have finished.
C32_WritersLeaveOneOpenRow ==
    (\A w \in Writers : snap[w].pc = "done") =>
        \A i, j \in DOMAIN contract_storage :
            /\ get_entity_id(contract_storage[i]) = get_entity_id(contract_storage[j])
            /\ contract_storage[i].valid_to = NULL
            /\ contract_storage[j].valid_to = NULL
            => i = j

\* the (external id, attribute) pairs that have a version valid at T
AttributesAt(T) ==
    {<<external_id_of(DB, protocol_state[i]), protocol_state[i].attribute_name>> :
        i \in {j \in DOMAIN protocol_state : valid_at(protocol_state[j], T)}}

\* C34: deleted_attributes_by_chain(start_ts, end_ts) returns exactly the
\* (component, attribute) pairs that have a valid version at start_ts and none at
\* end_ts; an attribute created and deleted inside the window is not returned.
C34_DeletedAttributes ==
    \A start_ts, end_ts \in 0..Now :
        start_ts <= end_ts =>
            BagToSet(deleted_attributes_by_chain(DB, Chain, start_ts, end_ts)) =
                AttributesAt(start_ts) \ AttributesAt(end_ts)

\* C38: reverse_delta_by_chain returns at most one entry per (component id,
\* attribute name), also for an attribute that was first updated and later
\* deleted between the target and the start timestamp.
C38_ReverseDeltaOneEntryPerAttribute ==
    \A S, V \in 0..Now :
        S > V =>
           \A b \in reverse_delta_by_chain(DB, Chain, S, V) :
              \A e \in BagToSet(b) :
                 /\ b[e] = 1
                 /\ \A f \in BagToSet(b) : e[1] = f[1] /\ e[2] = f[2] => e = f

\* ------------------------------------------------- claims on stream_blocks
\* C33: when connecting to the endpoint fails, the stream waits for the next
\* backoff delay before it tries to connect again, as it does after a tonic error
\* received mid-stream: no request that follows an error is sent without a
\* delay.
C33_ReconnectsAfterDelay ==
    \A i \in DOMAIN snap :
        snap[i].why \in {"connect_error", "tonic_error"} => snap[i].slept > 0

\* the cursor of the last item yielded before a request, or the cursor the stream
\* was made with
LastYieldedCursor(yielded) ==
    IF yielded = 0 THEN unwrap_or_default(cursor)
    ELSE IF batch[yielded].kind = "BlockScopedData" THEN batch[yielded].cursor
    ELSE batch[yielded].last_valid_cursor

\* C40: every connection request carries as start_cursor the cursor of the last
\* message yielded to the consumer (the block's cursor for a new block,
\* last_valid_cursor for an undo signal), or the initial cursor when nothing was
\* yielded yet, across any sequence of errors and reconnects.
C40_RequestsResumeAtLastYielded ==
    \A i \in DOMAIN snap : snap[i].start_cursor = LastYieldedCursor(snap[i].yielded)

\* a request after a tonic error that followed a yielded undo signal whose
\* cursor differs from the one of the block yielded before it
C40_Witness ==
    \E i \in DOMAIN snap :
        /\ snap[i].why = "tonic_error" /\ snap[i].yielded = 2
        /\ batch[1].kind = "BlockScopedData" /\ batch[2].kind = "BlockUndoSignal"
        /\ batch[1].cursor # batch[2].last_valid_cursor
        /\ batch[1].cursor # unwrap_or_default(cursor)

\* ------------------------------------------- claims on the stored versions
\* no row of a table ends before it starts
EndsAfterStart(table) ==
    \A i \in DOMAIN table : table[i].valid_to = NULL \/ table[i].valid_to >= table[i].valid_from

\* C36: after any sequence of versioning and update_protocol_states calls,
\* also with a batch whose transactions lie in several blocks, every stored row
\* has valid_to null or valid_to >= valid_from.
C36_RowsEndAfterStart ==
    /\ EndsAfterStart(protocol_state) /\ EndsAfterStart(component_balance)
    /\ EndsAfterStart(contract_storage)
    /\ \A new \in StoredDeltas :
          EndsAfterStart(update_protocol_states(DB, Chain, new).db.protocol_state)

\* C37: if merge returns an error, from a precondition or from merging an
\* account update or a state delta that both sides contain, self is left
\* exactly as it was before the call.
C37_FailedMergeLeavesSelf ==
    last.op = "merge" /\ last.out.res = "Err" => last.out.self = batch[1]

\* the rows of a table that were closed keep their valid_to
KeepsClosedRows(before, after) ==
    \A i \in DOMAIN before :
        before[i].valid_to # NULL => after[i].valid_to = before[i].valid_to

\* C39: delete_contract does not change valid_to on the balance, code and
\* storage rows of the account that were closed before the call, so that
\* get_contract_slots and get_contract at a version before the deletion return
\* the same before and after delete_contract.
C39_DeleteKeepsHistory ==
    \A t \in Pending, address \in Addresses :
        LET r == delete_contract(DB, Chain, address, t.id)
        IN r.res = "Ok" =>
              /\ KeepsClosedRows(contract_storage, r.db.contract_storage)
              /\ KeepsClosedRows(account_balance, r.db.account_balance)
              /\ KeepsClosedRows(contract_code, r.db.contract_code)
              /\ \A T \in 0..(block_ts(DB, t) - 1) :
                    /\ get_contract_slots(r.db, Chain, T) = get_contract_slots(DB, Chain, T)
                    /\ get_contract(r.db, Chain, address, T) =
                          get_contract(DB, Chain, address, T)

====
